---- MODULE Spec2Model ----
(***************************************************************************)
(* Model of the GitOps webhook pipeline of server/webhook.go: repository   *)
(* resolution (filterRepository, isWebhookEventBranch), the push handlers, *)
(* the commit-diff filter, the file classifier (getFileInfo), the grouping *)
(* and sorting of the files, the issue/activity orchestrator               *)
(* (processFilesInProject), the SQL review of a file (sqlAdviceForFile),   *)
(* the SQL review handler with its goroutines and the two report           *)
(* formatters, the push event and the link that files are read with; of    *)
(* the handler that links a project to a repository; and of JWTMiddleware  *)
(* of server/activity.go.                                                  *)
(*                                                                         *)
(* Strings that the code inspects character by character (refs, branch     *)
(* filters, directories) are sequences of one-character strings.           *)
(***************************************************************************)
EXTENDS Integers, Sequences, FiniteSets, TLC

VARIABLES
    pushEventRef,     \* isWebhookEventBranch: the ref of the push event
    branchFilter,     \* isWebhookEventBranch: the repository's branch filter
    branchResult,     \* isWebhookEventBranch: [ok, err] once it has returned
    repos,            \* filterRepository: what FindRepository returns for the endpoint
    findErr,          \* filterRepository: FindRepository fails
    request,          \* filterRepository: the inbound webhook request
    filterResult,     \* filterRepository: [list, err] once it has returned
    fileItem,         \* getFileInfo: the distinct file item
    repositoryList,   \* getFileInfo: the candidate repository links
    fileInfoResult,   \* getFileInfo: what it returned
    repoID2FileItemList, \* groupFileInfoByRepo: repository ID -> its fileInfo list
    distinctFileList, \* push handler: GetDistinctFileList of the push event
    diff,             \* push handler: what GetDiffFileList answered, [called, err, list]
    filteredDistinctFileList, \* push handler: result of filterFilesByCommitsDiff
    response,         \* push handler: the HTTP response, [status, body]
    issues,           \* the issues created (createIssue)
    activities,       \* the project activities persisted (CreateActivity)
    dbID2FileInfoList,    \* processPushEvent: repository ID -> database name -> fileInfo list
    fileInfoListUnsorted, \* sortFilesBySchemaVersion: the list it is given
    fileInfoListSorted,   \* sortFilesBySchemaVersion: the list it returns
    groupRepository,      \* processFilesInProject: the repository link of the group
    storeAnswers,         \* what the store and the provider answer for each file
    storeFailures,        \* which calls that persist fail, [createIssue, createActivity]
    featureMultiTenancy,  \* licenseService.IsFeatureEnabled(FeatureMultiTenancy)
    projectResult,        \* processFilesInProject: what it returned
    fileReads,            \* the files read from the provider (readFileContent)
    taskPatches,          \* the tasks whose statement was replaced (patchTask)
    adviceResult,         \* sqlAdviceForFile: what it returned, [adviceList, err]
    adviceCalls,          \* sqlAdviceForFile: the calls it made to the store and the provider
    adviceMap,            \* the report formatters: the advice map they are given
    gitlabResult,         \* what convertSQLAdviceToGitLabCIResult returned
    githubResult,         \* what convertSQLAdiceToGitHubActionResult returned
    prFiles,              \* SQL review handler: what ListPullRequestFile answered, [err, list]
    reviewPC,             \* SQL review handler: where the handler stands
    taskPC,               \* SQL review handler: file name -> where its goroutine stands
    wg,                   \* SQL review handler: the counter of the WaitGroup
    sqlCheckAdvice,       \* SQL review handler: the advice map the goroutines write
    overlapped,           \* the files whose map write ran while another one was running
    reviewResponse,       \* SQL review handler: the HTTP response, [status, body]
    links,                \* the repository links of the store, in the order of their creation
    webhooks,             \* the webhooks created at the provider (createVCSWebhook)
    clock,                \* time.Now().Unix()
    linkResponse,         \* link-repository handler: the status of the last response
    vcsPushEvent,         \* the push event the handler hands to processPushEvent (ToVCS)
    baseSeen,             \* processPushEvent: baseVCSPushEvent as each group found it
    jwtRequest,           \* JWTMiddleware: the request and what the store answers for it
    jwtResult             \* JWTMiddleware: what it did with the request

varsMatch == <<pushEventRef, branchFilter, branchResult>>
varsFilter == <<repos, findErr, request, filterResult>>
varsFile == <<fileItem, repositoryList, fileInfoResult, repoID2FileItemList>>
varsPush == <<distinctFileList, diff, filteredDistinctFileList, response, issues, activities>>
varsGroup == <<dbID2FileInfoList, fileInfoListUnsorted, fileInfoListSorted>>
varsProject == <<groupRepository, storeAnswers, storeFailures, featureMultiTenancy,
                 projectResult, fileReads, taskPatches>>
varsAdvice == <<adviceResult, adviceCalls>>
varsFormat == <<adviceMap, gitlabResult, githubResult>>
varsReview == <<prFiles, reviewPC, taskPC, wg, sqlCheckAdvice, overlapped, reviewResponse>>
varsLink == <<links, webhooks, clock, linkResponse>>
varsEvent == <<vcsPushEvent, baseSeen>>
varsJWT == <<jwtRequest, jwtResult>>
vars == <<varsMatch, varsFilter, varsFile, varsPush, varsGroup, varsProject, varsAdvice,
          varsFormat, varsReview, varsLink, varsEvent, varsJWT>>

(***************************************************************************)
(* Bounds of the model.                                                    *)
(***************************************************************************)
MaxPatLen == 3
MaxNameLen == 2
MaxRepos == 2
MaxDiff == 2
MaxFiles == 3
MaxFound == 2
MaxAdvice == 2
MaxProjects == 3
MaxClock == 1
MaxWebhooks == 2

SeqsUpTo(S, n) == UNION {[1..k -> S] : k \in 0..n}

(***************************************************************************)
(* Characters, in ASCII order (character classes compare by code point).   *)
(***************************************************************************)
Chars == <<"*", "-", ".", "/", "0", "1", "2", "?", "[", "\\", "]", "^",
           "a", "b", "d", "e", "f", "g", "h", "l", "o", "p", "r", "s", "t">>

Ord(c) == CHOOSE i \in 1..Len(Chars) : Chars[i] = c

Separator == "/"

HasPrefix(s, prefix) ==
    /\ Len(prefix) <= Len(s)
    /\ SubSeq(s, 1, Len(prefix)) = prefix

Contains(s, c) == \E i \in 1..Len(s) : s[i] = c

Drop(s, n) == SubSeq(s, n + 1, Len(s))

(***************************************************************************)
(* path/filepath.Match of the Go standard library (Unix), as called by     *)
(* isWebhookEventBranch.  A result is [matched, err]; err is ErrBadPattern.*)
(***************************************************************************)
ErrBadPattern == [matched |-> FALSE, err |-> TRUE]

\* getEsc: one possibly escaped character of a character class.
\* Returns [r, nchunk, err].
getEsc(chunk) ==
    IF chunk = <<>> \/ Head(chunk) = "-" \/ Head(chunk) = "]"
    THEN [r |-> "", nchunk |-> <<>>, err |-> TRUE]
    ELSE LET c == IF Head(chunk) = "\\" THEN Tail(chunk) ELSE chunk
         IN IF c = <<>>
            THEN [r |-> "", nchunk |-> <<>>, err |-> TRUE]
            ELSE [r |-> Head(c), nchunk |-> Tail(c), err |-> Tail(c) = <<>>]

\* The range loop of a character class: chunk is what follows "[" and "^",
\* r the character of the name (FALSE in `hasR` once the match has failed).
\* Returns [chunk, match, err].
RECURSIVE parseRanges(_, _, _, _, _)
parseRanges(chunk, hasR, r, match, nrange) ==
    IF chunk # <<>> /\ Head(chunk) = "]" /\ nrange > 0
    THEN [chunk |-> Tail(chunk), match |-> match, err |-> FALSE]
    ELSE LET lo == getEsc(chunk)
         IN IF lo.err
            THEN [chunk |-> <<>>, match |-> FALSE, err |-> TRUE]
            ELSE IF Head(lo.nchunk) = "-"
                 THEN LET hi == getEsc(Tail(lo.nchunk))
                      IN IF hi.err
                         THEN [chunk |-> <<>>, match |-> FALSE, err |-> TRUE]
                         ELSE parseRanges(hi.nchunk, hasR, r,
                                  match \/ (hasR /\ Ord(lo.r) <= Ord(r) /\ Ord(r) <= Ord(hi.r)),
                                  nrange + 1)
                 ELSE parseRanges(lo.nchunk, hasR, r,
                          match \/ (hasR /\ lo.r = r), nrange + 1)

\* matchChunk: does chunk (literals, classes and ?) match the beginning of s?
\* Returns [rest, ok, err].  `failed` is the loop's flag: once set the chunk
\* is only checked for well-formedness.
RECURSIVE matchChunkFrom(_, _, _)
matchChunkFrom(chunk, s, failed0) ==
    IF chunk = <<>>
    THEN IF failed0 THEN [rest |-> <<>>, ok |-> FALSE, err |-> FALSE]
                    ELSE [rest |-> s, ok |-> TRUE, err |-> FALSE]
    ELSE LET failed == failed0 \/ s = <<>>
             literal(ch) ==
                 IF failed THEN matchChunkFrom(Tail(ch), s, TRUE)
                 ELSE matchChunkFrom(Tail(ch), Tail(s), Head(ch) # Head(s))
         IN CASE Head(chunk) = "[" ->
                  LET s1 == IF failed THEN s ELSE Tail(s)
                      c1 == Tail(chunk)
                      negated == c1 # <<>> /\ Head(c1) = "^"
                      c2 == IF negated THEN Tail(c1) ELSE c1
                      cls == parseRanges(c2, ~failed,
                                 IF failed THEN "" ELSE Head(s), FALSE, 0)
                  IN IF cls.err
                     THEN [rest |-> <<>>, ok |-> FALSE, err |-> TRUE]
                     ELSE matchChunkFrom(cls.chunk, s1,
                              failed \/ (cls.match = negated))
              [] Head(chunk) = "?" ->
                  IF failed THEN matchChunkFrom(Tail(chunk), s, TRUE)
                  ELSE matchChunkFrom(Tail(chunk), Tail(s), Head(s) = Separator)
              [] Head(chunk) = "\\" ->
                  IF Tail(chunk) = <<>>
                  THEN [rest |-> <<>>, ok |-> FALSE, err |-> TRUE]
                  ELSE literal(Tail(chunk))
              [] OTHER -> literal(chunk)

matchChunk(chunk, s) == matchChunkFrom(chunk, s, FALSE)

\* The scan loop of scanChunk: the index of the first "*" outside a class.
RECURSIVE scanFrom(_, _, _)
scanFrom(pattern, i, inrange) ==
    IF i > Len(pattern) THEN i
    ELSE CASE pattern[i] = "\\" ->
                 scanFrom(pattern, IF i + 1 <= Len(pattern) THEN i + 2 ELSE i + 1, inrange)
           [] pattern[i] = "[" -> scanFrom(pattern, i + 1, TRUE)
           [] pattern[i] = "]" -> scanFrom(pattern, i + 1, FALSE)
           [] pattern[i] = "*" /\ ~inrange -> i
           [] OTHER -> scanFrom(pattern, i + 1, inrange)

RECURSIVE stripStars(_)
stripStars(pattern) ==
    IF pattern # <<>> /\ Head(pattern) = "*" THEN stripStars(Tail(pattern))
    ELSE pattern

\* scanChunk: the next segment of pattern, a non-star string possibly
\* preceded by stars.  Returns [star, chunk, rest].
scanChunk(pattern) ==
    LET p == stripStars(pattern)
        i == scanFrom(p, 1, FALSE)
    IN [star |-> pattern # <<>> /\ Head(pattern) = "*",
        chunk |-> SubSeq(p, 1, i - 1),
        rest |-> SubSeq(p, i, Len(p))]

\* The check that the unmatched remainder of the pattern is well formed.
RECURSIVE restValid(_)
restValid(pattern) ==
    IF pattern = <<>> THEN TRUE
    ELSE LET sc == scanChunk(pattern)
         IN ~matchChunk(sc.chunk, <<>>).err /\ restValid(sc.rest)

\* The loop after a star: look for a match skipping i+1 characters, never
\* skipping a separator.  Returns [kind, rest], kind in cont, err, none.
RECURSIVE starSkip(_, _, _, _)
starSkip(chunk, pattern, name, i) ==
    IF ~(i < Len(name) /\ name[i + 1] # Separator)
    THEN [kind |-> "none", rest |-> <<>>]
    ELSE LET m == matchChunk(chunk, Drop(name, i + 1))
         IN IF m.ok
            THEN IF pattern = <<>> /\ m.rest # <<>>
                 THEN starSkip(chunk, pattern, name, i + 1)
                 ELSE [kind |-> "cont", rest |-> m.rest]
            ELSE IF m.err THEN [kind |-> "err", rest |-> <<>>]
                 ELSE starSkip(chunk, pattern, name, i + 1)

RECURSIVE Match(_, _)
Match(pattern, name) ==
    IF pattern = <<>> THEN [matched |-> name = <<>>, err |-> FALSE]
    ELSE LET sc == scanChunk(pattern)
         IN IF sc.star /\ sc.chunk = <<>>
            THEN [matched |-> ~Contains(name, Separator), err |-> FALSE]
            ELSE LET m == matchChunk(sc.chunk, name)
                 IN IF m.ok /\ (m.rest = <<>> \/ sc.rest # <<>>)
                    THEN Match(sc.rest, m.rest)
                    ELSE IF m.err THEN ErrBadPattern
                    ELSE LET sk == IF sc.star
                                   THEN starSkip(sc.chunk, sc.rest, name, 0)
                                   ELSE [kind |-> "none", rest |-> <<>>]
                         IN CASE sk.kind = "cont" -> Match(sc.rest, sk.rest)
                              [] sk.kind = "err" -> ErrBadPattern
                              [] OTHER ->
                                  IF restValid(sc.rest)
                                  THEN [matched |-> FALSE, err |-> FALSE]
                                  ELSE ErrBadPattern

(***************************************************************************)
(* parseBranchNameFromRefs and isWebhookEventBranch.                       *)
(***************************************************************************)
expectedPrefix == <<"r", "e", "f", "s", "/", "h", "e", "a", "d", "s", "/">>

\* Returns [branch, err].
parseBranchNameFromRefs(ref) ==
    IF ~HasPrefix(ref, expectedPrefix) \/ Len(expectedPrefix) = Len(ref)
    THEN [branch |-> ref, err |-> TRUE]
    ELSE [branch |-> Drop(ref, Len(expectedPrefix)), err |-> FALSE]

\* A comparison of the branch with the filter by string equality.
isWebhookEventBranchEqual(ref, filter) ==
    LET b == parseBranchNameFromRefs(ref)
    IN IF b.err THEN [ok |-> FALSE, err |-> "400"]
       ELSE [ok |-> b.branch = filter, err |-> ""]

\* A comparison that accepts every branch the filter is a prefix of.
isWebhookEventBranchPrefix(ref, filter) ==
    LET b == parseBranchNameFromRefs(ref)
    IN IF b.err THEN [ok |-> FALSE, err |-> "400"]
       ELSE [ok |-> HasPrefix(b.branch, filter), err |-> ""]

\* What isWebhookEventBranch makes of the answer m of filepath.Match.
matchOutcome(m) ==
    IF m.err THEN [ok |-> FALSE, err |-> "match"]
    ELSE IF ~m.matched THEN [ok |-> FALSE, err |-> ""]
    ELSE [ok |-> TRUE, err |-> ""]

\* Returns [ok, err]: err is "" (nil), "400" (invalid ref) or "match"
\* (the wrapped ErrBadPattern).
isWebhookEventBranch(ref, filter) ==
    LET b == parseBranchNameFromRefs(ref)
    IN IF b.err THEN [ok |-> FALSE, err |-> "400"]
       ELSE matchOutcome(Match(filter, b.branch))

(***************************************************************************)
(* The trust predicates of the two push handlers.  A request carries the   *)
(* secret its sender holds: GitLab sends it as X-Gitlab-Token; GitHub      *)
(* sends "sha256=" and the HMAC-SHA256 of the body under it, which         *)
(* validateGitHubWebhookSignature256 compares with the HMAC under the      *)
(* repository's secret.  The digest of a body under a key is the pair of   *)
(* the two.                                                                *)
(***************************************************************************)
hmacSHA256(key, body) == <<key, body>>

\* Returns [ok, err]; hash.Write never fails, so err is always FALSE.
validateGitHubWebhookSignature256(signature, key, body) ==
    [ok |-> signature = hmacSHA256(key, body), err |-> FALSE]

\* The token check of the GitLab closure and the signature check of the
\* GitHub closure: [ok, err].
gitlabFilter(req, repo) ==
    [ok |-> req.key = repo.WebhookSecretToken, err |-> ""]

githubFilter(req, repo) ==
    LET v == validateGitHubWebhookSignature256(
                 hmacSHA256(req.key, "body"), repo.WebhookSecretToken, "body")
    IN IF v.err THEN [ok |-> FALSE, err |-> "500"]
       ELSE [ok |-> v.ok, err |-> ""]

\* The closure the handler of the request's provider passes to
\* filterRepository.
\* The workspace ID, which the SQL review closure accepts as token in
\* development mode.
workspaceID == "w"

\* The closure with the workspace ID accepted as token in every mode.
sqlReviewFilterAnyMode(req, repo) ==
    IF ~repo.EnableSQLReviewCI THEN [ok |-> FALSE, err |-> ""]
    ELSE IF ~HasPrefix(repo.WebURL, req.WebURL) THEN [ok |-> FALSE, err |-> ""]
    ELSE IF req.key = workspaceID THEN [ok |-> TRUE, err |-> ""]
    ELSE [ok |-> req.key = repo.WebhookSecretToken, err |-> ""]

\* The closure of the SQL review handler: the link has the SQL review CI
\* enabled, its web URL starts with the one of the request, and the token
\* of the request is the link's secret.
sqlReviewFilter(req, repo) ==
    IF ~repo.EnableSQLReviewCI THEN [ok |-> FALSE, err |-> ""]
    ELSE IF ~HasPrefix(repo.WebURL, req.WebURL) THEN [ok |-> FALSE, err |-> ""]
    ELSE IF req.key = workspaceID /\ req.releaseMode = "dev" THEN [ok |-> TRUE, err |-> ""]
    ELSE [ok |-> req.key = repo.WebhookSecretToken, err |-> ""]

\* The check of a push handler: its own, then isWebhookEventBranch.
pushFilter(req, repo) ==
    LET t == IF req.provider = "gitlab" THEN gitlabFilter(req, repo)
             ELSE githubFilter(req, repo)
    IN IF t.err # "" \/ ~t.ok THEN t
       ELSE isWebhookEventBranch(req.ref, repo.BranchFilter)

filter(req, repo) ==
    IF req.provider = "sql-review" THEN sqlReviewFilter(req, repo)
    ELSE pushFilter(req, repo)

(***************************************************************************)
(* filterRepository.  Returns [list, err]; err is "" (nil), "500"          *)
(* (FindRepository failed), "404" (no link for the endpoint) or the error  *)
(* of the trust predicate.                                                 *)
(***************************************************************************)
\* What becomes of link repo in the loop: [ok, err], ok to append it, err
\* the error that ends the loop.
repoCheck(req, repo) ==
    IF repo.Archived THEN [ok |-> FALSE, err |-> ""]
    ELSE IF ~repo.HasVCS THEN [ok |-> FALSE, err |-> ""]
    ELSE IF req.repositoryID # repo.ExternalID THEN [ok |-> FALSE, err |-> ""]
    ELSE filter(req, repo)

\* The loop with the VCS check left out.
RECURSIVE filterLoopNoVCS(_, _, _, _)
filterLoopNoVCS(rs, req, i, filteredRepos) ==
    IF i > Len(rs) THEN [list |-> filteredRepos, err |-> ""]
    ELSE IF repoCheck(req, [rs[i] EXCEPT !.HasVCS = TRUE]).err # ""
         THEN [list |-> <<>>,
               err |-> repoCheck(req, [rs[i] EXCEPT !.HasVCS = TRUE]).err]
    ELSE filterLoopNoVCS(rs, req, i + 1,
             IF repoCheck(req, [rs[i] EXCEPT !.HasVCS = TRUE]).ok
             THEN Append(filteredRepos, rs[i]) ELSE filteredRepos)

\* One turn of the loop of filterRepository, c the outcome of the checks
\* on rs[i].
RECURSIVE filterLoop(_, _, _, _)
filterTurn(rs, req, i, filteredRepos, c) ==
    IF c.err # "" THEN [list |-> <<>>, err |-> c.err]
    ELSE filterLoop(rs, req, i + 1,
             IF c.ok THEN Append(filteredRepos, rs[i]) ELSE filteredRepos)

\* The loop of filterRepository from index i on.
filterLoop(rs, req, i, filteredRepos) ==
    IF i > Len(rs) THEN [list |-> filteredRepos, err |-> ""]
    ELSE filterTurn(rs, req, i, filteredRepos, repoCheck(req, rs[i]))

filterRepository(rs, ferr, req) ==
    IF ferr THEN [list |-> <<>>, err |-> "500"]
    ELSE IF Len(rs) = 0 THEN [list |-> <<>>, err |-> "404"]
    ELSE filterLoop(rs, req, 1, <<>>)

(***************************************************************************)
(* The file classifier.  db.ParseMigrationInfo and db.ParseSchemaFileInfo  *)
(* match a file path against a template.  How a link's templates relate to *)
(* the file at hand is the link's Shape:                                   *)
(*   mig        the file path template matches, database segment present   *)
(*   migNoDB    the file path template matches, database segment omitted   *)
(*   migErr     ParseMigrationInfo fails on the path                       *)
(*   schema     only the schema path template matches                      *)
(*   schemaErr  the file path template does not match and                  *)
(*              ParseSchemaFileInfo fails                                  *)
(*   none       neither template matches                                   *)
(* (a link's Shape maps each file name to one of these).                   *)
(* A template ends in .sql unless getFileInfo rewrote it to .yml, and      *)
(* matches only a file of that extension.                                  *)
(***************************************************************************)
Shapes == {"mig", "migNoDB", "migErr", "schema", "schemaErr", "none"}

unknownFileType == 0
migrationFileType == 1
schemaFileType == 2

NoInfo == [Database |-> <<>>, Version |-> <<>>, Type |-> "", nil |-> TRUE]
NoRepo == [ID |-> 0]

Extension(item) == IF item.IsYAML THEN ".yml" ELSE ".sql"

\* Returns [mi, err]; mi is NoInfo for nil.
ParseMigrationInfo(item, repository, suffix, allowOmitDatabaseName) ==
    IF repository.Shape[item.FileName] = "migErr" THEN [mi |-> NoInfo, err |-> TRUE]
    ELSE IF repository.Shape[item.FileName] \notin {"mig", "migNoDB"} \/ Extension(item) # suffix
         THEN [mi |-> NoInfo, err |-> FALSE]
    ELSE IF repository.Shape[item.FileName] = "migNoDB" /\ ~allowOmitDatabaseName
         THEN [mi |-> NoInfo, err |-> TRUE]
    ELSE [mi |-> [Database |-> IF repository.Shape[item.FileName] = "mig" THEN item.Database ELSE <<>>,
                  Version |-> item.Version, Type |-> item.Type, nil |-> FALSE],
          err |-> FALSE]

\* Returns [si, err]; si is NoInfo for nil.
ParseSchemaFileInfo(item, repository) ==
    IF repository.Shape[item.FileName] = "schemaErr" THEN [si |-> NoInfo, err |-> TRUE]
    ELSE IF repository.Shape[item.FileName] = "schema"
         THEN [si |-> [Database |-> item.Database, Version |-> <<>>,
                       Type |-> "MIGRATE", nil |-> FALSE],
               err |-> FALSE]
    ELSE [si |-> NoInfo, err |-> FALSE]

\* allowOmitDatabaseName without the tenant-mode test.
allowOmitAnyMode(item, repository) ==
    IF item.IsYAML THEN TRUE
    ELSE IF repository.DBNameTemplate = "" THEN TRUE
    ELSE FALSE

\* The allowOmitDatabaseName that getFileInfo computes for a link.
allowOmitDatabaseName(item, repository) ==
    IF repository.TenantMode = "TENANT"
    THEN IF item.IsYAML THEN TRUE
         ELSE IF repository.DBNameTemplate = "" THEN TRUE
         ELSE FALSE
    ELSE FALSE

\* The suffix of filePathTemplate after the rewrite of .sql to .yml.
filePathTemplateSuffix(item, repository) ==
    IF repository.TenantMode = "TENANT" /\ item.IsYAML THEN ".yml" ELSE ".sql"

ProjectNames(fileRepositoryList) ==
    [k \in 1..Len(fileRepositoryList) |-> fileRepositoryList[k].ProjectName]

FileInfoError(e, projects) ==
    [migrationInfo |-> NoInfo, fType |-> unknownFileType, repository |-> NoRepo,
     err |-> e, projects |-> projects]

\* An ending that resolves several matches to the first one.
getFileInfoEndFirst(migrationInfo, fType, fileRepositoryList) ==
    IF Len(fileRepositoryList) = 0 THEN FileInfoError("none", <<>>)
    ELSE [migrationInfo |-> migrationInfo, fType |-> fType,
          repository |-> fileRepositoryList[1], err |-> "", projects |-> <<>>]

\* The switch on len(fileRepositoryList) that ends getFileInfo.
getFileInfoEnd(migrationInfo, fType, fileRepositoryList) ==
    CASE Len(fileRepositoryList) = 0 -> FileInfoError("none", <<>>)
      [] Len(fileRepositoryList) = 1 ->
            [migrationInfo |-> migrationInfo, fType |-> fType,
             repository |-> fileRepositoryList[1], err |-> "", projects |-> <<>>]
      [] OTHER -> FileInfoError("multiple", ProjectNames(fileRepositoryList))

\* A check that lets every YAML file through.
yamlNotDataNever(item, mi) == FALSE

\* The test that makes a YAML file a hard error.
yamlNotData(item, mi) == item.IsYAML /\ mi.Type # "DATA"

\* The loop of getFileInfo from index i on.  err is "" (nil), "yaml" (only
\* DML is allowed for YAML files), "none" (no project) or "multiple".
RECURSIVE getFileInfoLoop(_, _, _, _, _, _)
getFileInfoLoop(item, rl, i, migrationInfo, fType, fileRepositoryList) ==
    IF i > Len(rl) THEN getFileInfoEnd(migrationInfo, fType, fileRepositoryList)
    ELSE LET repository == rl[i]
             next(m, f, l) == getFileInfoLoop(item, rl, i + 1, m, f, l)
             skip == next(migrationInfo, fType, fileRepositoryList)
         IN IF ~HasPrefix(item.FileName, repository.BaseDirectory) THEN skip
            ELSE LET p == ParseMigrationInfo(item, repository,
                              filePathTemplateSuffix(item, repository),
                              allowOmitDatabaseName(item, repository))
                 IN IF p.err THEN skip
                    ELSE IF ~p.mi.nil
                    THEN IF yamlNotData(item, p.mi)
                         THEN FileInfoError("yaml", <<>>)
                         ELSE next(p.mi, migrationFileType,
                                   Append(fileRepositoryList, repository))
                    ELSE LET s == ParseSchemaFileInfo(item, repository)
                         IN IF s.err THEN skip
                            ELSE IF ~s.si.nil
                            THEN next(s.si, schemaFileType,
                                      Append(fileRepositoryList, repository))
                            ELSE skip

getFileInfo(item, rl) == getFileInfoLoop(item, rl, 1, NoInfo, unknownFileType, <<>>)

\* The map m with the file item added under the repository that getFileInfo
\* returned for it (r), or m itself if it returned an error.
addFileInfo(m, item, r) ==
    IF r.err # "" THEN m
    ELSE [x \in (DOMAIN m) \cup {r.repository.ID} |->
             IF x = r.repository.ID
             THEN Append(IF x \in DOMAIN m THEN m[x] ELSE <<>>,
                         [item |-> item, migrationInfo |-> r.migrationInfo,
                          fType |-> r.fType, repository |-> r.repository])
             ELSE m[x]]

\* groupFileInfoByRepo: a map from repository ID to the fileInfo list of
\* the files classified under it, in the order of distinctFileList.
RECURSIVE groupFileInfoByRepoFrom(_, _, _, _)
groupFileInfoByRepoFrom(fileList, rl, k, m) ==
    IF k > Len(fileList) THEN m
    ELSE groupFileInfoByRepoFrom(fileList, rl, k + 1,
             addFileInfo(m, fileList[k], getFileInfo(fileList[k], rl)))

EmptyMap == [x \in {} |-> <<>>]

groupFileInfoByRepo(fileList, rl) ==
    groupFileInfoByRepoFrom(fileList, rl, 1, EmptyMap)

(***************************************************************************)
(* The commit-diff filter.  diffAnswer is what the provider's              *)
(* GetDiffFileList answers: [err, list], list the paths of the diff.       *)
(***************************************************************************)
\* The inner loop without its break: every equal diff entry appends.
RECURSIVE diffInnerNoBreak(_, _, _, _)
diffInnerNoBreak(file, fileDiffList, j, acc) ==
    IF j > Len(fileDiffList) THEN acc
    ELSE diffInnerNoBreak(file, fileDiffList, j + 1,
             IF file.FileName = fileDiffList[j] THEN Append(acc, file) ELSE acc)

\* The inner loop over fileDiffList for one file: append once and break.
RECURSIVE diffInner(_, _, _, _)
diffInner(file, fileDiffList, j, acc) ==
    IF j > Len(fileDiffList) THEN acc
    ELSE IF file.FileName = fileDiffList[j] THEN Append(acc, file)
    ELSE diffInner(file, fileDiffList, j + 1, acc)

RECURSIVE diffOuter(_, _, _, _)
diffOuter(fileList, fileDiffList, k, acc) ==
    IF k > Len(fileList) THEN acc
    ELSE diffOuter(fileList, fileDiffList, k + 1,
             diffInner(fileList[k], fileDiffList, 1, acc))

\* Returns [list, err].
filterFilesByCommitsDiff(fileList, diffAnswer) ==
    IF diffAnswer.err THEN [list |-> <<>>, err |-> TRUE]
    ELSE [list |-> diffOuter(fileList, diffAnswer.list, 1, <<>>), err |-> FALSE]

(***************************************************************************)
(* Grouping by database and ordering by schema version.                    *)
(***************************************************************************)
RECURSIVE StrLess(_, _)
StrLess(a, b) ==
    IF b = <<>> THEN FALSE
    ELSE IF a = <<>> THEN TRUE
    ELSE IF Head(a) = Head(b) THEN StrLess(Tail(a), Tail(b))
    ELSE Ord(Head(a)) < Ord(Head(b))

RECURSIVE groupFileInfoByDatabaseFrom(_, _, _)
groupFileInfoByDatabaseFrom(fileInfoList, k, m) ==
    IF k > Len(fileInfoList) THEN m
    ELSE LET d == fileInfoList[k].migrationInfo.Database
             old == IF d \in DOMAIN m THEN m[d] ELSE <<>>
         IN groupFileInfoByDatabaseFrom(fileInfoList, k + 1,
                [x \in (DOMAIN m) \cup {d} |->
                    IF x = d THEN Append(old, fileInfoList[k]) ELSE m[x]])

\* A grouping that files every file under the database of the first.
groupFileInfoUnderFirst(fileInfoList) ==
    IF fileInfoList = <<>> THEN EmptyMap
    ELSE [x \in {fileInfoList[1].migrationInfo.Database} |-> fileInfoList]

groupFileInfoByDatabase(fileInfoList) ==
    groupFileInfoByDatabaseFrom(fileInfoList, 1, EmptyMap)

\* The less function of sortFilesBySchemaVersion.
FileLess(x, y) ==
    \/ StrLess(x.migrationInfo.Database, y.migrationInfo.Database)
    \/ /\ x.migrationInfo.Database = y.migrationInfo.Database
       /\ StrLess(x.migrationInfo.Version, y.migrationInfo.Version)

\* sort.Slice does not promise to keep files that compare equal in their
\* original order: tie, a listing of the file names, stands for the order
\* in which this run of the sort leaves them.
Rank(tie, name) == CHOOSE i \in 1..Len(tie) : tie[i] = name

FileBefore(x, y, tie) ==
    \/ FileLess(x, y)
    \/ /\ ~FileLess(y, x)
       /\ Rank(tie, x.item.FileName) < Rank(tie, y.item.FileName)

RECURSIVE insertSorted(_, _, _)
insertSorted(sorted, x, tie) ==
    IF sorted = <<>> THEN <<x>>
    ELSE IF FileBefore(x, Head(sorted), tie) THEN <<x>> \o sorted
    ELSE <<Head(sorted)>> \o insertSorted(Tail(sorted), x, tie)

\* sortFilesBySchemaVersion: a copy of the list ordered by FileLess.
RECURSIVE sortFilesBySchemaVersion(_, _)
sortFilesBySchemaVersion(fileInfoList, tie) ==
    IF fileInfoList = <<>> THEN <<>>
    ELSE insertSorted(
             sortFilesBySchemaVersion(
                 SubSeq(fileInfoList, 1, Len(fileInfoList) - 1), tie),
             fileInfoList[Len(fileInfoList)], tie)

(***************************************************************************)
(* The issue/activity orchestrator.  io says which calls of the            *)
(* persistence layer fail in this request: [createIssue, createActivity].  *)
(* prep maps a file name to what the provider and the store answer while   *)
(* the file is prepared:                                                   *)
(*   read      readFileContent succeeds                                    *)
(*   yaml      the content as YAML: "bad" (yaml.Unmarshal fails), "empty"  *)
(*             (it names no database) or "one" (it names one)              *)
(*   found     the IDs of the databases findProjectDatabases returns for   *)
(*             the file's database name; <<>> when it returns an error (it *)
(*             never returns an empty list without one)                    *)
(*   tasks     database ID -> the number of pending-approval or failed     *)
(*             tasks that store the file's schema version                  *)
(*   findTask  FindTask succeeds                                           *)
(*   patch     "ok", "noIssue" (GetIssueByPipelineID fails or finds none)  *)
(*             or "fail" (patchTask fails)                                 *)
(***************************************************************************)
IssueName(databaseName, what) == [database |-> databaseName, what |-> what]

getIgnoredFileActivityCreate(projectID, file) ==
    [ContainerID |-> projectID, Level |-> "WARN", file |-> file,
     issue |-> IssueName(<<>>, "")]

\* Returns [err, databases].
findProjectDatabases(answer) ==
    IF answer.found = <<>> THEN [err |-> TRUE, databases |-> <<>>]
    ELSE [err |-> FALSE, databases |-> answer.found]

\* A loop that patches a task of every database that has any.
RECURSIVE tryUpdateTasksAny(_, _, _, _, _)
tryUpdateTasksAny(databases, fileName, answer, k, patches) ==
    IF k > Len(databases) THEN [err |-> FALSE, patches |-> patches]
    ELSE IF ~answer.findTask THEN [err |-> TRUE, patches |-> patches]
    ELSE IF answer.tasks[databases[k]] = 0
    THEN tryUpdateTasksAny(databases, fileName, answer, k + 1, patches)
    ELSE IF answer.patch # "ok" THEN [err |-> FALSE, patches |-> patches]
    ELSE tryUpdateTasksAny(databases, fileName, answer, k + 1,
             Append(patches, [DatabaseID |-> databases[k], file |-> fileName]))

\* The loop of tryUpdateTasksFromModifiedFile from database k on; patches
\* are the tasks patched so far.  Returns [err, patches].
RECURSIVE tryUpdateTasksFrom(_, _, _, _, _)
tryUpdateTasksFrom(databases, fileName, answer, k, patches) ==
    IF k > Len(databases) THEN [err |-> FALSE, patches |-> patches]
    ELSE IF ~answer.findTask THEN [err |-> TRUE, patches |-> patches]
    ELSE IF answer.tasks[databases[k]] = 0
    THEN tryUpdateTasksFrom(databases, fileName, answer, k + 1, patches)
    ELSE IF answer.tasks[databases[k]] > 1 THEN [err |-> FALSE, patches |-> patches]
    ELSE IF answer.patch # "ok" THEN [err |-> FALSE, patches |-> patches]
    ELSE tryUpdateTasksFrom(databases, fileName, answer, k + 1,
             Append(patches, [DatabaseID |-> databases[k], file |-> fileName]))

tryUpdateTasksFromModifiedFile(databases, fileName, answer) ==
    tryUpdateTasksFrom(databases, fileName, answer, 1, <<>>)

\* What preparing a file yields: the migration details or the ignored-file
\* activity, with the files read and the tasks patched on the way.
DetailByName(type, fi) ==
    <<[MigrationType |-> type, file |-> fi.item.FileName, DatabaseID |-> 0,
       DatabaseName |-> fi.migrationInfo.Database]>>

DetailsByID(type, fi, databases) ==
    [k \in 1..Len(databases) |->
        [MigrationType |-> type, file |-> fi.item.FileName,
         DatabaseID |-> databases[k], DatabaseName |-> <<>>]]

Details(list, fi) ==
    [details |-> list, acts |-> <<>>, reads |-> <<fi.item.FileName>>, patches |-> <<>>]

Ignored(repo, fi) ==
    [details |-> <<>>,
     acts |-> <<getIgnoredFileActivityCreate(repo.ProjectID, fi.item.FileName)>>,
     reads |-> <<fi.item.FileName>>, patches |-> <<>>]

Neither == [details |-> <<>>, acts |-> <<>>, reads |-> <<>>, patches |-> <<>>]

\* The end of prepareIssueFromFile for a modified file: t is what
\* tryUpdateTasksFromModifiedFile returned.
afterTaskUpdate(repo, fi, t) ==
    IF t.err THEN [Ignored(repo, fi) EXCEPT !.patches = t.patches]
    ELSE [Details(<<>>, fi) EXCEPT !.patches = t.patches]

\* Returns [details, acts, reads, patches].
prepareIssueFromSDLFile(repo, fi, answer) ==
    IF fi.migrationInfo.Database = <<>> THEN Neither
    ELSE IF ~answer.read THEN Ignored(repo, fi)
    ELSE IF repo.TenantMode = "TENANT"
    THEN Details(DetailByName("MIGRATE_SDL", fi), fi)
    ELSE IF findProjectDatabases(answer).err THEN Ignored(repo, fi)
    ELSE Details(DetailsByID("MIGRATE_SDL", fi, findProjectDatabases(answer).databases), fi)

\* Returns [details, acts, reads, patches].
prepareIssueFromFile(repo, fi, answer) ==
    IF ~answer.read THEN Ignored(repo, fi)
    ELSE IF repo.TenantMode = "TENANT"
    THEN IF ~fi.item.IsYAML
         THEN Details(DetailByName(fi.migrationInfo.Type, fi), fi)
         ELSE IF answer.yaml = "bad" THEN Ignored(repo, fi)
         ELSE IF answer.yaml = "empty" THEN Details(<<>>, fi)
         ELSE IF findProjectDatabases(answer).err THEN Ignored(repo, fi)
         ELSE Details(DetailsByID(fi.migrationInfo.Type, fi,
                          findProjectDatabases(answer).databases), fi)
    ELSE IF findProjectDatabases(answer).err THEN Ignored(repo, fi)
    ELSE IF fi.item.ItemType = "added"
    THEN Details(DetailsByID(fi.migrationInfo.Type, fi,
                     findProjectDatabases(answer).databases), fi)
    ELSE afterTaskUpdate(repo, fi,
             tryUpdateTasksFromModifiedFile(findProjectDatabases(answer).databases,
                 fi.item.FileName, answer))

\* An issue creation that types the issue by the migrate kind alone.
createIssueMigrateOnly(issueName, projectID, migrationDetailList, io) ==
    LET issueType ==
            IF \E k \in 1..Len(migrationDetailList) :
                   migrationDetailList[k].MigrationType = "MIGRATE"
            THEN "SCHEMA_UPDATE" ELSE "DATA_UPDATE"
        issue == [ProjectID |-> projectID, Name |-> issueName, Type |-> issueType,
                  DetailList |-> migrationDetailList]
        act == [ContainerID |-> projectID, Level |-> "INFO", file |-> <<>>,
                issue |-> issueName]
    IN IF io.createIssue THEN [err |-> "500", issues |-> <<>>, activities |-> <<>>]
       ELSE IF io.createActivity
       THEN [err |-> "500", issues |-> <<issue>>, activities |-> <<>>]
       ELSE [err |-> "", issues |-> <<issue>>, activities |-> <<act>>]

\* Returns [err, issues, activities]: the error, the issues created and the
\* activities persisted by the call.
createIssueFromMigrationDetailList(issueName, projectID, migrationDetailList, io) ==
    LET issueType ==
            IF \E k \in 1..Len(migrationDetailList) :
                   migrationDetailList[k].MigrationType \in {"MIGRATE", "BASELINE"}
            THEN "SCHEMA_UPDATE" ELSE "DATA_UPDATE"
        issue == [ProjectID |-> projectID, Name |-> issueName, Type |-> issueType,
                  DetailList |-> migrationDetailList]
        act == [ContainerID |-> projectID, Level |-> "INFO", file |-> <<>>,
                issue |-> issueName]
    IN IF io.createIssue THEN [err |-> "500", issues |-> <<>>, activities |-> <<>>]
       ELSE IF io.createActivity
       THEN [err |-> "500", issues |-> <<issue>>, activities |-> <<>>]
       ELSE [err |-> "", issues |-> <<issue>>, activities |-> <<act>>]

\* The accumulator a of processFilesInProject after createIssue... returned
\* c for the SDL file issue called name.
afterSDLIssue(a, name, c) ==
    IF c.err # ""
    THEN [a EXCEPT !.issues = @ \o c.issues, !.persisted = @ \o c.activities,
                   !.err = c.err]
    ELSE [a EXCEPT !.issues = @ \o c.issues, !.persisted = @ \o c.activities,
                   !.created = Append(@, name)]

\* A variant that gives up the group at a schema file that was ignored.
afterSDLFileAborting(repo, fi, io, a, p) ==
    IF p.details = <<>>
    THEN [a EXCEPT !.acts = @ \o p.acts, !.reads = @ \o p.reads,
                   !.err = IF p.acts # <<>> THEN "500" ELSE @]
    ELSE afterSDLIssue([a EXCEPT !.acts = @ \o p.acts, !.reads = @ \o p.reads],
             IssueName(fi.migrationInfo.Database, "Alter schema"),
             createIssueFromMigrationDetailList(
                 IssueName(fi.migrationInfo.Database, "Alter schema"),
                 repo.ProjectID, p.details, io))

\* The accumulator after the schema file fi of an SDL project was prepared
\* with result p.
afterSDLFile(repo, fi, io, a, p) ==
    IF p.details = <<>>
    THEN [a EXCEPT !.acts = @ \o p.acts, !.reads = @ \o p.reads]
    ELSE afterSDLIssue([a EXCEPT !.acts = @ \o p.acts, !.reads = @ \o p.reads],
             IssueName(fi.migrationInfo.Database, "Alter schema"),
             createIssueFromMigrationDetailList(
                 IssueName(fi.migrationInfo.Database, "Alter schema"),
                 repo.ProjectID, p.details, io))

\* The accumulator after the migration file fi was prepared with result p.
afterMigrationFile(fi, a, p) ==
    [a EXCEPT !.acts = @ \o p.acts,
              !.reads = @ \o p.reads,
              !.patches = @ \o p.patches,
              !.details = @ \o p.details,
              !.names = IF p.details # <<>> THEN Append(@, fi.item.FileName) ELSE @]

\* A turn that handles a schema file as in an SDL project whatever the
\* project's schema change type.
fileTurnAlwaysSDL(repo, fi, prep, io, a) ==
    IF fi.fType = schemaFileType
    THEN afterSDLFile(repo, fi, io, a,
             prepareIssueFromSDLFile(repo, fi, prep[fi.item.FileName]))
    ELSE afterMigrationFile(fi, a,
             prepareIssueFromFile(repo, fi, prep[fi.item.FileName]))

\* One turn of the loop of processFilesInProject: the accumulator after
\* file fi.  a holds migrationDetailList (details), activityCreateList
\* (acts), createdIssueList (created), fileNameList (names), the issues
\* created and activities persisted, the files read and the tasks patched so
\* far, and the error that ends the loop.
fileTurn(repo, fi, prep, io, a) ==
    IF fi.fType = schemaFileType
    THEN IF repo.SchemaChangeType = "SDL"
         THEN afterSDLFile(repo, fi, io, a,
                  prepareIssueFromSDLFile(repo, fi, prep[fi.item.FileName]))
         ELSE a
    ELSE afterMigrationFile(fi, a,
             prepareIssueFromFile(repo, fi, prep[fi.item.FileName]))

\* The loop of processFilesInProject over the files from index k on.
RECURSIVE processFilesLoop(_, _, _, _, _, _)
processFilesLoop(repo, fl, k, prep, io, a) ==
    IF k > Len(fl) \/ a.err # "" THEN a
    ELSE processFilesLoop(repo, fl, k + 1, prep, io,
             fileTurn(repo, fl[k], prep, io, a))

NoFilesResult ==
    [created |-> FALSE, acts |-> <<>>, err |-> "", msg |-> <<>>,
     issues |-> <<>>, persisted |-> <<>>, reads |-> <<>>, patches |-> <<>>]

\* The end of processFilesInProject when createIssue... returned c for the
\* issue called name of the migration files; a is the loop's accumulator.
afterMigrationIssue(a, name, c) ==
    IF c.err # ""
    THEN [created |-> a.created # <<>>, acts |-> a.acts, err |-> c.err,
          msg |-> <<>>, issues |-> a.issues \o c.issues,
          persisted |-> a.persisted \o c.activities,
          reads |-> a.reads, patches |-> a.patches]
    ELSE [created |-> TRUE, acts |-> a.acts, err |-> "",
          msg |-> Append(a.created, name), issues |-> a.issues \o c.issues,
          persisted |-> a.persisted \o c.activities,
          reads |-> a.reads, patches |-> a.patches]

\* The name of the issue of the migration files.
migrationIssueName(fileInfoList, details) ==
    IssueName(fileInfoList[1].migrationInfo.Database,
              IF \E k \in 1..Len(details) : details[k].MigrationType = "MIGRATE"
              THEN "Alter schema" ELSE "Change data")

\* processFilesInProject after its loop ended with accumulator a.
afterFilesLoop(repo, fileInfoList, io, a) ==
    IF a.err # ""
    THEN [created |-> FALSE, acts |-> a.acts, err |-> a.err, msg |-> <<>>,
          issues |-> a.issues, persisted |-> a.persisted,
          reads |-> a.reads, patches |-> a.patches]
    ELSE IF a.details = <<>>
    THEN [created |-> a.created # <<>>, acts |-> a.acts, err |-> "", msg |-> <<>>,
          issues |-> a.issues, persisted |-> a.persisted,
          reads |-> a.reads, patches |-> a.patches]
    ELSE afterMigrationIssue(a, migrationIssueName(fileInfoList, a.details),
             createIssueFromMigrationDetailList(
                 migrationIssueName(fileInfoList, a.details),
                 repo.ProjectID, a.details, io))

\* processFilesInProject without the license check.
processFilesUnlicensed(repo, fileInfoList, prep, io, licensed) ==
    afterFilesLoop(repo, fileInfoList, io,
        processFilesLoop(repo, fileInfoList, 1, prep, io,
            [details |-> <<>>, acts |-> <<>>, created |-> <<>>,
             names |-> <<>>, issues |-> <<>>, persisted |-> <<>>,
             reads |-> <<>>, patches |-> <<>>, err |-> ""]))

\* Returns [created, acts, err, msg, issues, persisted, reads, patches]:
\* created, the activityCreateList and the error it returns, the names in its
\* message, and the issues it created, the activities it persisted, the
\* files it read and the tasks it patched on the way.
processFilesInProject(repo, fileInfoList, prep, io, licensed) ==
    IF repo.TenantMode = "TENANT" /\ ~licensed
    THEN [NoFilesResult EXCEPT !.err = "403"]
    ELSE afterFilesLoop(repo, fileInfoList, io,
             processFilesLoop(repo, fileInfoList, 1, prep, io,
                 [details |-> <<>>, acts |-> <<>>, created |-> <<>>,
                  names |-> <<>>, issues |-> <<>>, persisted |-> <<>>,
                  reads |-> <<>>, patches |-> <<>>, err |-> ""]))

(***************************************************************************)
(* processPushEvent.  order and dbOrder are the orders in which the two    *)
(* maps are iterated in this request (Go leaves them unspecified), tie the  *)
(* order in which the sort leaves files that compare equal.                *)
(* Returns [err, messages, filtered, grouped, diffCalled, issues,          *)
(* activities, reads, patches]; err is "" (nil), "500" or "403".           *)
(***************************************************************************)
\* The groups of the push event in iteration order: a sequence of sorted
\* fileInfo lists.
GroupsInOrder(grouped, order, dbOrder, tie) ==
    LET ids == SelectSeq(order, LAMBDA id : id \in DOMAIN grouped)
        dbGroups(id) ==
            LET byDB == groupFileInfoByDatabase(grouped[id])
                dbs == SelectSeq(dbOrder, LAMBDA d : d \in DOMAIN byDB)
            IN [k \in 1..Len(dbs) |-> sortFilesBySchemaVersion(byDB[dbs[k]], tie)]
        RECURSIVE flat(_)
        flat(k) == IF k > Len(ids) THEN <<>> ELSE dbGroups(ids[k]) \o flat(k + 1)
    IN flat(1)

\* The accumulator a of processPushEvent after processFilesInProject
\* returned r for a group: the created message is kept, or the activities of
\* the ignored files are persisted (a failure to persist is only logged).
afterGroup(io, a, r) ==
    IF r.err # ""
    THEN [a EXCEPT !.reads = @ \o r.reads, !.patches = @ \o r.patches,
                   !.issues = @ \o r.issues, !.activities = @ \o r.persisted,
                   !.err = r.err, !.messages = <<>>]
    ELSE IF r.created
    THEN [a EXCEPT !.reads = @ \o r.reads, !.patches = @ \o r.patches,
                   !.issues = @ \o r.issues, !.activities = @ \o r.persisted,
                   !.messages = Append(@, r.msg)]
    ELSE [a EXCEPT !.reads = @ \o r.reads, !.patches = @ \o r.patches,
                   !.issues = @ \o r.issues,
                   !.activities = IF io.createActivity THEN @ \o r.persisted
                                  ELSE @ \o r.persisted \o r.acts]

\* The loops of processPushEvent over the groups from index k on.
RECURSIVE processGroups(_, _, _, _, _, _)
processGroups(groups, k, prep, io, licensed, a) ==
    IF k > Len(groups) \/ a.err # "" THEN a
    ELSE processGroups(groups, k + 1, prep, io, licensed,
             afterGroup(io, a,
                 processFilesInProject(groups[k][1].repository, groups[k],
                     prep, io, licensed)))

NoPush ==
    [err |-> "", messages |-> <<>>, filtered |-> <<>>, grouped |-> EmptyMap,
     diffCalled |-> FALSE, issues |-> <<>>, activities |-> <<>>,
     reads |-> <<>>, patches |-> <<>>]

\* processPushEvent once the diff filter returned the list filtered and the
\* files were grouped.
afterGrouping(filtered, grouped, prep, io, licensed, order, dbOrder, tie) ==
    processGroups(GroupsInOrder(grouped, order, dbOrder, tie), 1, prep, io, licensed,
        [NoPush EXCEPT !.filtered = filtered, !.grouped = grouped,
                       !.diffCalled = TRUE])

\* processPushEvent once filterFilesByCommitsDiff returned f.
afterDiff(rl, f, prep, io, licensed, order, dbOrder, tie) ==
    IF f.err THEN [NoPush EXCEPT !.err = "500", !.diffCalled = TRUE]
    ELSE afterGrouping(f.list, groupFileInfoByRepo(f.list, rl),
             prep, io, licensed, order, dbOrder, tie)

processPushEvent(rl, fileList, diffAnswer, prep, io, licensed, order, dbOrder, tie) ==
    IF Len(rl) = 0 THEN [NoPush EXCEPT !.err = "500"]
    ELSE IF Len(fileList) = 0 THEN NoPush
    ELSE afterDiff(rl, filterFilesByCommitsDiff(fileList, diffAnswer),
             prep, io, licensed, order, dbOrder, tie)

(***************************************************************************)
(* sqlAdviceForFile.  answer is what the store and the provider answer for *)
(* the file: read, found (as above) and review, which maps each database   *)
(* found to how its review goes: "noPolicy" (no SQL review policy in its   *)
(* environment), "policyErr", "typeErr", "catalogErr", "driverErr",        *)
(* "connErr", "checkErr" (the step that fails) or "ok".                    *)
(* Returns [adviceList, err, calls]; err is "" for nil.  calls lists the   *)
(* calls made to the store, the provider and the database, each with the   *)
(* database it is made for (0 for none) and whether it succeeded.          *)
(***************************************************************************)
Advice(status, code) == [Status |-> status, Code |-> code, Line |-> 1]

\* What SQLReviewCheck returns for the statement.
ReviewedAdvice == <<[Status |-> "SUCCESS", Code |-> "Ok", Line |-> 0]>>

AdviceError(calls) == [adviceList |-> <<>>, err |-> "error", calls |-> calls]

Call(name, database, ok) == [call |-> name, database |-> database, ok |-> ok]

\* The calls made for a database whose review goes as outcome says.  The
\* driver is closed after SQLReviewCheck has returned, and only there.
ReviewCalls(outcome, d) ==
    CASE outcome \in {"noPolicy", "policyErr"} ->
            <<Call("GetNormalSQLReviewPolicy", d, FALSE)>>
      [] outcome = "typeErr" ->
            <<Call("GetNormalSQLReviewPolicy", d, TRUE)>>
      [] outcome = "catalogErr" ->
            <<Call("GetNormalSQLReviewPolicy", d, TRUE), Call("NewCatalog", d, FALSE)>>
      [] outcome = "driverErr" ->
            <<Call("GetNormalSQLReviewPolicy", d, TRUE), Call("NewCatalog", d, TRUE),
              Call("GetReadOnlyDatabaseDriver", d, FALSE)>>
      [] outcome = "connErr" ->
            <<Call("GetNormalSQLReviewPolicy", d, TRUE), Call("NewCatalog", d, TRUE),
              Call("GetReadOnlyDatabaseDriver", d, TRUE),
              Call("GetDBConnection", d, FALSE)>>
      [] OTHER ->
            <<Call("GetNormalSQLReviewPolicy", d, TRUE), Call("NewCatalog", d, TRUE),
              Call("GetReadOnlyDatabaseDriver", d, TRUE),
              Call("GetDBConnection", d, TRUE),
              Call("SQLReviewCheck", d, outcome = "ok"),
              Call("Close", d, TRUE)>>

\* A loop that goes on to the next database when the review of one fails.
RECURSIVE adviceLoopPastFailures(_, _, _, _)
adviceLoopPastFailures(databases, answer, k, calls) ==
    IF k > Len(databases)
    THEN [adviceList |-> <<Advice("WARN", "NotFound")>>, err |-> "", calls |-> calls]
    ELSE IF answer.review[databases[k]] = "ok"
    THEN [adviceList |-> ReviewedAdvice, err |-> "",
          calls |-> calls \o ReviewCalls("ok", databases[k])]
    ELSE adviceLoopPastFailures(databases, answer, k + 1,
             calls \o ReviewCalls(answer.review[databases[k]], databases[k]))

\* The loop over the databases from index k on.
RECURSIVE adviceLoop(_, _, _, _)
adviceLoop(databases, answer, k, calls) ==
    IF k > Len(databases)
    THEN [adviceList |-> <<Advice("WARN", "NotFound")>>, err |-> "", calls |-> calls]
    ELSE IF answer.review[databases[k]] = "noPolicy"
    THEN adviceLoop(databases, answer, k + 1,
                    calls \o ReviewCalls("noPolicy", databases[k]))
    ELSE IF answer.review[databases[k]] = "ok"
    THEN [adviceList |-> ReviewedAdvice, err |-> "",
          calls |-> calls \o ReviewCalls("ok", databases[k])]
    ELSE AdviceError(calls \o ReviewCalls(answer.review[databases[k]], databases[k]))

\* sqlAdviceForFile from the call of findProjectDatabases on.
adviceAfterTenantCheck(file, answer) ==
    IF findProjectDatabases(answer).err
    THEN AdviceError(<<Call("findProjectDatabases", 0, FALSE)>>)
    ELSE IF ~answer.read
    THEN AdviceError(<<Call("findProjectDatabases", 0, TRUE),
                       Call("ReadFileContent", 0, FALSE)>>)
    ELSE adviceLoop(findProjectDatabases(answer).databases, answer, 1,
                    <<Call("findProjectDatabases", 0, TRUE),
                      Call("ReadFileContent", 0, TRUE)>>)

\* A review that treats a tenant-mode project as any other.
sqlAdviceEveryMode(file, answer) == adviceAfterTenantCheck(file, answer)

sqlAdviceForFile(file, answer) ==
    IF file.repository.TenantMode = "TENANT"
    THEN [adviceList |-> <<Advice("WARN", "Unsupported")>>, err |-> "", calls |-> <<>>]
    ELSE adviceAfterTenantCheck(file, answer)

(***************************************************************************)
(* The two push handlers of registerWebhookRoutes.                         *)
(***************************************************************************)
\* An event check that answers every kind other than push with 200.
eventKindCheckAccepting(provider, kind) ==
    IF kind = "push" THEN "process" ELSE "200"

\* What the handler does with the event kind: "process" it, or answer
\* "200" or "400" at once.
eventKindCheck(provider, kind) ==
    IF provider = "gitlab"
    THEN IF kind # "push" THEN "400" ELSE "process"
    ELSE IF kind = "ping" THEN "200"
         ELSE IF kind # "push" THEN "400"
         ELSE "process"

\* A handler returns [status, body, filterResult, push]: the response and
\* the results of filterRepository and processPushEvent (NoFilterResult and
\* NoPush when not called).  The body is "OK", the created messages or an
\* error.
NoFilterResult == [list |-> <<>>, err |-> "pending"]

errorResponse(status, fr, push) ==
    [status |-> status, body |-> [kind |-> "error", messages |-> <<>>],
     filterResult |-> fr, push |-> push]

okResponse(fr) ==
    [status |-> 200, body |-> [kind |-> "OK", messages |-> <<>>],
     filterResult |-> fr, push |-> NoPush]

\* The end of a handler: processPushEvent returned push.
afterPush(fr, push) ==
    IF push.err = "403" THEN errorResponse(403, fr, push)
    ELSE IF push.err # "" THEN errorResponse(500, fr, push)
    ELSE [status |-> 200,
          body |-> [kind |-> "messages", messages |-> push.messages],
          filterResult |-> fr, push |-> push]

\* A handler from the return of filterRepository (fr) on.
afterFilter(req, fr, fileList, diffAnswer, prep, io, licensed, order, dbOrder, tie) ==
    IF fr.err = "404" THEN errorResponse(404, fr, NoPush)
    ELSE IF fr.err = "400" THEN errorResponse(400, fr, NoPush)
    ELSE IF fr.err # "" THEN errorResponse(500, fr, NoPush)
    ELSE IF Len(fr.list) = 0 THEN okResponse(fr)
    ELSE IF req.provider = "gitlab" /\ ~req.convertOK
         THEN errorResponse(500, fr, NoPush)
    ELSE afterPush(fr, processPushEvent(fr.list, fileList, diffAnswer,
                           prep, io, licensed, order, dbOrder, tie))

\* GitLab reads the event kind from the body; GitHub reads it from a header
\* before it reads the body.
pushHandler(req, rs, ferr, fileList, diffAnswer, prep, io, licensed, order, dbOrder, tie) ==
    IF req.provider = "gitlab" /\ ~req.bodyOK
    THEN errorResponse(400, NoFilterResult, NoPush)
    ELSE IF eventKindCheck(req.provider, req.kind) = "200"
    THEN okResponse(NoFilterResult)
    ELSE IF eventKindCheck(req.provider, req.kind) = "400"
    THEN errorResponse(400, NoFilterResult, NoPush)
    ELSE IF ~req.bodyOK THEN errorResponse(400, NoFilterResult, NoPush)
    ELSE afterFilter(req, filterRepository(rs, ferr, req), fileList, diffAnswer,
             prep, io, licensed, order, dbOrder, tie)

(***************************************************************************)
(* Branch matching on its own: the inputs are drawn, then the function is  *)
(* applied.                                                                *)
(***************************************************************************)
PatAlphabet == {"a", "/", "*", "?", "[", "]", "\\"}
NameAlphabet == {"a", "b", "/"}

release == <<"r", "e", "l", "e", "a", "s", "e">>
releaseStar == release \o <<"/", "*">>
release10 == release \o <<"/", "1", ".", "0">>

Patterns == SeqsUpTo(PatAlphabet, MaxPatLen)
               \cup {releaseStar, <<"[", "a", "-", "b", "]">>, <<"[", "^", "a", "]">>}
BranchNames == SeqsUpTo(NameAlphabet, MaxNameLen) \cup {release, release10}
Refs == {expectedPrefix \o n : n \in BranchNames}
           \cup {<<"r", "e", "f", "s", "/", "t", "a", "g", "s", "/", "a">>, <<"a">>}

Pending == [ok |-> FALSE, err |-> "pending"]

NoRequest ==
    [provider |-> "none", kind |-> "", bodyOK |-> TRUE, convertOK |-> TRUE, key |-> "",
     repositoryID |-> "", ref |-> <<>>]
IdleMatch ==
    /\ pushEventRef = <<>>
    /\ branchFilter = <<>>
    /\ branchResult = Pending

IdleFilter ==
    /\ repos = <<>>
    /\ findErr = FALSE
    /\ request = NoRequest
    /\ filterResult = NoFilterResult

NoFileItem ==
    [FileName |-> <<>>, IsYAML |-> FALSE, Type |-> "", Database |-> <<>>, Version |-> <<>>,
     ItemType |-> ""]
NoFileInfoResult == FileInfoError("pending", <<>>)

IdleFile ==
    /\ fileItem = NoFileItem
    /\ repositoryList = <<>>
    /\ fileInfoResult = NoFileInfoResult
    /\ repoID2FileItemList = EmptyMap

NoDiff == [called |-> FALSE, err |-> FALSE, list |-> <<>>]
NoResponse == [status |-> 0, body |-> [kind |-> "pending", messages |-> <<>>]]

IdlePush ==
    /\ distinctFileList = <<>>
    /\ diff = NoDiff
    /\ filteredDistinctFileList = <<>>
    /\ response = NoResponse
    /\ issues = <<>>
    /\ activities = <<>>

IdleGroup ==
    /\ dbID2FileInfoList = EmptyMap
    /\ fileInfoListUnsorted = <<>>
    /\ fileInfoListSorted = <<>>

NoAnswers == [x \in {} |-> <<>>]
NoFailures == [createIssue |-> FALSE, createActivity |-> FALSE]
NoProjectResult == [created |-> FALSE, acts |-> <<>>, err |-> "pending", msg |-> <<>>]

IdleProject ==
    /\ groupRepository = NoRepo
    /\ storeAnswers = NoAnswers
    /\ storeFailures = NoFailures
    /\ featureMultiTenancy = FALSE
    /\ projectResult = NoProjectResult
    /\ fileReads = <<>>
    /\ taskPatches = <<>>

NoAdvice == [adviceList |-> <<>>, err |-> "pending"]

IdleAdvice ==
    /\ adviceResult = NoAdvice
    /\ adviceCalls = <<>>

NoReport == [Status |-> "pending", Content |-> <<>>]

IdleFormat ==
    /\ adviceMap = EmptyMap
    /\ gitlabResult = NoReport
    /\ githubResult = NoReport

NoPRFiles == [err |-> FALSE, list |-> <<>>]
NoReviewResponse == [status |-> 0, body |-> NoReport]

IdleReview ==
    /\ prFiles = NoPRFiles
    /\ reviewPC = "idle"
    /\ taskPC = EmptyMap
    /\ wg = 0
    /\ sqlCheckAdvice = EmptyMap
    /\ overlapped = {}
    /\ reviewResponse = NoReviewResponse

IdleLink ==
    /\ links = <<>>
    /\ webhooks = <<>>
    /\ clock = 0
    /\ linkResponse = 0

NoPushEvent == [Ref |-> <<>>, CommitList |-> <<>>, VCSType |-> "", BaseDirectory |-> <<>>]

IdleEvent ==
    /\ vcsPushEvent = NoPushEvent
    /\ baseSeen = <<>>

NoJWTRequest ==
    [exempt |-> "idle", tokenFound |-> FALSE, access |-> "otherError",
     audienceOK |-> FALSE, exp |-> "none", subject |-> "", userErr |-> FALSE,
     refresh |-> "missing", refreshAudienceOK |-> FALSE, generateOK |-> FALSE]
NoJWTResult == [status |-> "pending", next |-> FALSE, principalID |-> 0, generated |-> FALSE]

IdleJWT ==
    /\ jwtRequest = NoJWTRequest
    /\ jwtResult = NoJWTResult

InitMatch ==
    /\ IdleAdvice
    /\ IdleFormat
    /\ IdleReview
    /\ IdleLink
    /\ IdleEvent
    /\ IdleJWT
    /\ pushEventRef \in Refs
    /\ branchFilter \in Patterns
    /\ branchResult = Pending
    /\ IdleFilter
    /\ IdleFile
    /\ IdlePush
    /\ IdleGroup
    /\ IdleProject

BranchCall ==
    /\ branchResult = Pending
    /\ branchResult' = isWebhookEventBranch(pushEventRef, branchFilter)
    /\ UNCHANGED <<varsEvent, varsJWT, varsFormat, varsReview, varsLink, varsAdvice, pushEventRef, branchFilter, varsFilter, varsFile, varsPush,
                   varsGroup, varsProject>>

NextMatch == BranchCall

SpecMatch == InitMatch /\ [][NextMatch]_vars

BranchDone == branchResult # Pending
IsHeadsRef == HasPrefix(pushEventRef, expectedPrefix)
PushedBranch == Drop(pushEventRef, Len(expectedPrefix))
MetaChars == {"*", "?", "[", "\\"}
NoMeta(s) == \A i \in 1..Len(s) : s[i] \notin MetaChars

\* C3 (as stated): for every branch filter without "*" and every ref
\* refs/heads/<branch>, isWebhookEventBranch returns true iff <branch> is
\* exactly the filter.
C3_Original ==
    (BranchDone /\ IsHeadsRef /\ PushedBranch # <<>> /\ ~Contains(branchFilter, "*"))
        => (branchResult.ok <=> PushedBranch = branchFilter)

\* C3 (amended): for every branch filter that contains none of the glob
\* metacharacters * ? [ \ and every ref refs/heads/<branch> with a
\* non-empty <branch>, isWebhookEventBranch returns without error, and
\* returns true iff <branch> is exactly the filter.
C3_ExactWithoutMeta ==
    (BranchDone /\ IsHeadsRef /\ PushedBranch # <<>> /\ NoMeta(branchFilter))
        => /\ branchResult.err = ""
           /\ branchResult.ok <=> PushedBranch = branchFilter

\* C3 witness: a metacharacter-free filter has been matched against the
\* equal branch and accepted.
C3_Witness ==
    /\ BranchDone /\ IsHeadsRef
    /\ branchFilter = <<"a", "/">> /\ PushedBranch = branchFilter
    /\ branchResult.ok

\* C4: a filter with "*" matches by glob semantics: a filter <lit>* (lit
\* free of metacharacters) accepts exactly the branches that start with lit
\* and continue without a "/"; release/* matches release/1.0 and does not
\* match release.
C4_GlobStar ==
    (BranchDone /\ IsHeadsRef /\ PushedBranch # <<>>) =>
        /\ \A lit \in SeqsUpTo(NameAlphabet, MaxPatLen - 1) \cup {release \o <<"/">>} :
              branchFilter = lit \o <<"*">> =>
                /\ branchResult.err = ""
                /\ branchResult.ok <=>
                      /\ HasPrefix(PushedBranch, lit)
                      /\ ~Contains(Drop(PushedBranch, Len(lit)), Separator)
        /\ (branchFilter = releaseStar /\ PushedBranch = release10) => branchResult.ok
        /\ (branchFilter = releaseStar /\ PushedBranch = release) => ~branchResult.ok

\* C4 witness: release/* has been matched against release/1.0 and accepted.
C4_Witness ==
    /\ BranchDone /\ IsHeadsRef
    /\ branchFilter = releaseStar /\ PushedBranch = release10
    /\ branchResult.ok

(***************************************************************************)
(* filterRepository on its own: the store's links of one endpoint and the  *)
(* request are drawn, then the function is applied.                        *)
(***************************************************************************)
FilterBranchFilters == {<<"a", "*">>, <<"[">>}
FilterRefs == {expectedPrefix \o <<"a">>, expectedPrefix \o <<"b">>,
               <<"r", "e", "f", "s", "/", "t", "a", "g", "s", "/", "a">>}

FilterRepos ==
    [Archived : BOOLEAN, HasVCS : BOOLEAN, ExternalID : {"r1", "r2"},
     WebhookSecretToken : {"s1", "s2"}, BranchFilter : FilterBranchFilters]

PushRequests ==
    [provider : {"gitlab", "github"}, kind : {"push"}, bodyOK : {TRUE},
     convertOK : {TRUE}, key : {"s1"}, repositoryID : {"r1"}, ref : FilterRefs]

InitFilter ==
    /\ IdleAdvice
    /\ IdleFormat
    /\ IdleReview
    /\ IdleLink
    /\ IdleEvent
    /\ IdleJWT
    /\ IdleMatch
    /\ IdleFile
    /\ IdlePush
    /\ IdleGroup
    /\ IdleProject
    /\ repos \in SeqsUpTo(FilterRepos, MaxRepos)
    /\ findErr \in BOOLEAN
    /\ findErr => repos = <<>>
    /\ request \in PushRequests
    /\ filterResult = NoFilterResult

FilterCall ==
    /\ filterResult = NoFilterResult
    /\ filterResult' = filterRepository(repos, findErr, request)
    /\ UNCHANGED <<varsEvent, varsJWT, varsFormat, varsReview, varsLink, varsAdvice, varsMatch, varsFile, varsPush, varsGroup, varsProject,
                   repos, findErr, request>>

NextFilter == FilterCall

SpecFilter == InitFilter /\ [][NextFilter]_vars

FilterDone == filterResult # NoFilterResult

\* The three checks of a link that precede the trust predicate.
Eligible(repo) ==
    /\ ~repo.Archived
    /\ repo.HasVCS
    /\ repo.ExternalID = request.repositoryID

Trusted(repo) == filter(request, repo).ok

PassesAll(repo) == Eligible(repo) /\ Trusted(repo)

NoPredicateError ==
    \A i \in 1..Len(repos) : Eligible(repos[i]) => filter(request, repos[i]).err = ""

\* C1: when no call of the trust predicate returns an error, filterRepository
\* returns, in the order of the store, exactly the links whose project is not
\* archived, whose VCS is resolved, whose external ID is the inbound one and
\* which the trust predicate accepts.
C1_FilterExact ==
    (FilterDone /\ ~findErr /\ repos # <<>> /\ NoPredicateError)
        => /\ filterResult.err = ""
           /\ filterResult.list = SelectSeq(repos, PassesAll)

\* C1 witness: of two links of the endpoint one was rejected for its missing
\* VCS and the other returned.
C1_Witness ==
    /\ FilterDone /\ NoPredicateError
    /\ Len(repos) = 2
    /\ ~repos[1].HasVCS /\ ~repos[1].Archived
    /\ repos[1].ExternalID = request.repositoryID /\ Trusted(repos[1])
    /\ filterResult.list = <<repos[2]>>

ValidRef ==
    /\ HasPrefix(request.ref, expectedPrefix)
    /\ Len(request.ref) > Len(expectedPrefix)

\* C2 (as stated): when several links share the endpoint and the push ref is
\* well formed, a link that fails a check
\* (archived, no VCS, external ID, token, evaluation of its branch filter)
\* is skipped with no error propagated, and every link of the endpoint that
\* passes all checks is returned.
C2_SkipNeverStarves ==
    (FilterDone /\ ~findErr /\ Len(repos) >= 2 /\ ValidRef)
        => /\ filterResult.err = ""
           /\ \A i \in 1..Len(repos) :
                 PassesAll(repos[i]) =>
                     \E j \in 1..Len(filterResult.list) : filterResult.list[j] = repos[i]

(***************************************************************************)
(* The file classifier on its own: a file item and the candidate links are *)
(* drawn, then getFileInfo and groupFileInfoByRepo are applied.            *)
(***************************************************************************)
FileNames == {<<"a", "/", "f">>}
BaseDirectories == {<<"a">>, <<"b">>}

FileItems ==
    [FileName : FileNames, IsYAML : BOOLEAN, Type : {"MIGRATE", "DATA"},
     Database : {<<"d", "b">>}, Version : {<<"1">>}, ItemType : {"added"}]

RepoAttrs ==
    [BaseDirectory : BaseDirectories, TenantMode : {"DISABLED", "TENANT"},
     DBNameTemplate : {"", "{{DB_NAME}}"}, Shape : [FileNames -> Shapes]]

WithIDs(attrs) ==
    [i \in 1..Len(attrs) |->
        [ID |-> i, ProjectName |-> <<"project", i>>,
         BaseDirectory |-> attrs[i].BaseDirectory,
         TenantMode |-> attrs[i].TenantMode,
         DBNameTemplate |-> attrs[i].DBNameTemplate,
         Shape |-> attrs[i].Shape]]

InitFile ==
    /\ IdleAdvice
    /\ IdleFormat
    /\ IdleReview
    /\ IdleLink
    /\ IdleEvent
    /\ IdleJWT
    /\ IdleMatch
    /\ IdleFilter
    /\ IdlePush
    /\ IdleGroup
    /\ IdleProject
    /\ fileItem \in FileItems
    /\ repositoryList \in {WithIDs(a) : a \in SeqsUpTo(RepoAttrs, MaxRepos)}
    /\ fileInfoResult = NoFileInfoResult
    /\ repoID2FileItemList = EmptyMap

GetFileInfoCall ==
    /\ fileInfoResult = NoFileInfoResult
    /\ fileInfoResult' = getFileInfo(fileItem, repositoryList)
    /\ repoID2FileItemList' = groupFileInfoByRepo(<<fileItem>>, repositoryList)
    /\ UNCHANGED <<varsEvent, varsJWT, varsFormat, varsReview, varsLink, varsAdvice, varsMatch, varsFilter, varsPush, varsGroup, varsProject,
                   fileItem, repositoryList>>

NextFile == GetFileInfoCall

SpecFile == InitFile /\ [][NextFile]_vars

FileDone == fileInfoResult # NoFileInfoResult

InBase(i) == HasPrefix(fileItem.FileName, repositoryList[i].BaseDirectory)

IsTenant(i) == repositoryList[i].TenantMode = "TENANT"

\* The policy of the claim: tenant-mode and (YAML or empty template).
MayOmit(i) ==
    IsTenant(i) /\ (fileItem.IsYAML \/ repositoryList[i].DBNameTemplate = "")

\* Link i parses the file as a migration file.
ParsesAsMigration(i) ==
    LET p == ParseMigrationInfo(fileItem, repositoryList[i],
                 filePathTemplateSuffix(fileItem, repositoryList[i]), MayOmit(i))
    IN InBase(i) /\ ~p.err /\ ~p.mi.nil

\* Link i parses the file as a schema file.
ParsesAsSchema(i) ==
    LET p == ParseMigrationInfo(fileItem, repositoryList[i],
                 filePathTemplateSuffix(fileItem, repositoryList[i]), MayOmit(i))
        s == ParseSchemaFileInfo(fileItem, repositoryList[i])
    IN InBase(i) /\ ~p.err /\ p.mi.nil /\ ~s.err /\ ~s.si.nil

Matching == {i \in 1..Len(repositoryList) : ParsesAsMigration(i) \/ ParsesAsSchema(i)}

InNoGroup == DOMAIN repoID2FileItemList = {}

\* C8: the allowOmitDatabaseName used for a link is true exactly when the
\* link's project is tenant-mode and (the file is YAML or the project's
\* database-name template is empty), and false for every non-tenant
\* project; so a path without database segment is classified under a sole
\* candidate link exactly in that case.
C8_AllowOmit ==
    FileDone =>
        /\ \A i \in 1..Len(repositoryList) :
              /\ allowOmitDatabaseName(fileItem, repositoryList[i]) <=> MayOmit(i)
              /\ ~IsTenant(i) => ~allowOmitDatabaseName(fileItem, repositoryList[i])
        /\ (/\ Len(repositoryList) = 1 /\ InBase(1)
            /\ repositoryList[1].Shape[fileItem.FileName] = "migNoDB"
            /\ ~(fileItem.IsYAML /\ fileItem.Type # "DATA"))
              => (fileInfoResult.err = "" <=> MayOmit(1))

\* C8 witness: a path without database segment was classified under a
\* tenant project with an empty database-name template.
C8_Witness ==
    /\ FileDone
    /\ Len(repositoryList) = 1 /\ InBase(1)
    /\ repositoryList[1].Shape[fileItem.FileName] = "migNoDB"
    /\ ~fileItem.IsYAML /\ IsTenant(1) /\ repositoryList[1].DBNameTemplate = ""
    /\ fileInfoResult.err = "" /\ fileInfoResult.fType = migrationFileType

\* Some candidate link parses the YAML file as a migration of another kind
\* than data.
YAMLNotData ==
    /\ fileItem.IsYAML /\ fileItem.Type # "DATA"
    /\ \E i \in 1..Len(repositoryList) : ParsesAsMigration(i)

\* C9: a YAML file whose migration kind parsed from its path is not data is
\* a hard error: getFileInfo returns an error and no repository, and the
\* file is put in no repository group (it contributes to no issue).
C9_YAMLOnlyData ==
    (FileDone /\ YAMLNotData)
        => /\ fileInfoResult.err = "yaml"
           /\ fileInfoResult.repository = NoRepo
           /\ fileInfoResult.migrationInfo = NoInfo
           /\ InNoGroup

\* C9 witness: a YAML file of kind migrate was parsed by a tenant link that
\* follows a link already matched, and was rejected.
C9_Witness ==
    /\ FileDone /\ YAMLNotData
    /\ Len(repositoryList) = 2
    /\ ParsesAsSchema(1) /\ ParsesAsMigration(2)
    /\ fileInfoResult.err = "yaml"

\* C10 (as stated): getFileInfo returns a repository link iff exactly one
\* candidate link matches the file as migration file or schema file.
C10_Original ==
    FileDone => (fileInfoResult.repository # NoRepo <=> Cardinality(Matching) = 1)

\* C10 (amended): unless the file is a YAML file that a candidate link
\* parses as a migration of another kind than data (then no link is
\* returned), getFileInfo returns a link iff exactly one candidate matches,
\* and it is that candidate; with no match the file is ignored (error, no
\* group); with several the error names the matching projects in candidate
\* order and the file is put in no group.
C10_ExactlyOne ==
    FileDone =>
        IF YAMLNotData
        THEN fileInfoResult.repository = NoRepo /\ InNoGroup
        ELSE /\ fileInfoResult.repository # NoRepo <=> Cardinality(Matching) = 1
             /\ Cardinality(Matching) = 1 =>
                   /\ fileInfoResult.err = ""
                   /\ \A i \in Matching :
                         /\ fileInfoResult.repository = repositoryList[i]
                         /\ DOMAIN repoID2FileItemList = {repositoryList[i].ID}
                         /\ Len(repoID2FileItemList[repositoryList[i].ID]) = 1
             /\ Cardinality(Matching) = 0 =>
                   fileInfoResult.err = "none" /\ InNoGroup
             /\ Cardinality(Matching) > 1 =>
                   /\ fileInfoResult.err = "multiple"
                   /\ InNoGroup
                   /\ fileInfoResult.projects =
                         ProjectNames(SelectSeq(repositoryList,
                             LAMBDA r : r.ID \in Matching))

\* C10 witness: two candidate links match the file and the error names both
\* projects.
C10_Witness ==
    /\ FileDone /\ ~YAMLNotData
    /\ Matching = {1, 2}
    /\ ParsesAsMigration(1) /\ ParsesAsSchema(2)
    /\ fileInfoResult.err = "multiple"
    /\ fileInfoResult.projects = <<<<"project", 1>>, <<"project", 2>>>>

(***************************************************************************)
(* The push handlers: the delivery, the links of the endpoint, the files   *)
(* of the push event and the provider's diff answer are drawn; one action  *)
(* runs the whole handler.                                                 *)
(***************************************************************************)
fileF == <<"a", "/", "f">>
fileH == <<"b", "/", "h">>
PushFileNames == {fileF, fileH}
PushDatabases == {<<"d", "b">>}

PushFileItems ==
    {[FileName |-> fileF, IsYAML |-> FALSE, Type |-> "MIGRATE",
      Database |-> <<"d", "b">>, Version |-> <<"1">>, ItemType |-> "added"],
     [FileName |-> fileH, IsYAML |-> FALSE, Type |-> "DATA",
      Database |-> <<"d", "b">>, Version |-> <<"2">>, ItemType |-> "added"]}

\* GetDistinctFileList yields every file name once.
PushFileLists ==
    {l \in SeqsUpTo(PushFileItems, Cardinality(PushFileItems)) :
        \A i, j \in 1..Len(l) : l[i] = l[j] => i = j}

DiffAnswers ==
    {[err |-> TRUE, list |-> <<>>]}
        \cup [err : {FALSE}, list : SeqsUpTo(PushFileNames, MaxDiff)]

ShapeAll(s) == [n \in PushFileNames |-> s]

PushLink(token, base, mode, change, shape) ==
    [Archived |-> FALSE, HasVCS |-> TRUE, ExternalID |-> "r1",
     WebhookSecretToken |-> token, BranchFilter |-> <<"a", "*">>,
     BaseDirectory |-> base, TenantMode |-> mode, DBNameTemplate |-> "",
     SchemaChangeType |-> change, Shape |-> ShapeAll(shape)]

PushRepoAttrs ==
    {PushLink("s1", <<"a">>, "DISABLED", "DDL", "mig"),
     PushLink("s1", <<"b">>, "TENANT", "DDL", "mig"),
     PushLink("s1", <<"a">>, "DISABLED", "SDL", "schema"),
     PushLink("s2", <<"a">>, "DISABLED", "DDL", "mig"),
     PushLink("s1", <<>>, "DISABLED", "DDL", "mig")}

\* A project has at most one repository link: link i belongs to project i.
PushWithIDs(attrs) ==
    [i \in 1..Len(attrs) |->
        [Archived |-> attrs[i].Archived, HasVCS |-> attrs[i].HasVCS,
         ExternalID |-> attrs[i].ExternalID,
         WebhookSecretToken |-> attrs[i].WebhookSecretToken,
         BranchFilter |-> attrs[i].BranchFilter,
         ID |-> i, ProjectID |-> i, ProjectName |-> <<"project", i>>,
         BaseDirectory |-> attrs[i].BaseDirectory,
         TenantMode |-> attrs[i].TenantMode,
         DBNameTemplate |-> attrs[i].DBNameTemplate,
         SchemaChangeType |-> attrs[i].SchemaChangeType,
         Shape |-> attrs[i].Shape]]

Deliveries ==
    [provider : {"gitlab", "github"}, kind : {"push", "ping", "other"},
     bodyOK : BOOLEAN, convertOK : BOOLEAN, key : {"s1"}, repositoryID : {"r1"},
     ref : {expectedPrefix \o <<"a">>}]

\* What the provider and the store answer for a file of the push: the
\* content cannot be read, no database is found, or one database is.
Answer(read, found) ==
    [read |-> read, yaml |-> "one", found |-> found,
     tasks |-> [d \in {1} |-> 0], findTask |-> TRUE, patch |-> "ok"]

PrepareOutcomes == {Answer(FALSE, <<1>>), Answer(TRUE, <<>>), Answer(TRUE, <<1>>)}

\* The delivery reaches processPushEvent if a link passes.
Processable(req) == req.kind = "push" /\ req.bodyOK /\ req.convertOK

\* The orders in which a set can be listed.
Orders(S) ==
    {o \in [1..Cardinality(S) -> S] : \A i, j \in 1..Cardinality(S) : o[i] = o[j] => i = j}

InitPush ==
    /\ IdleAdvice
    /\ IdleFormat
    /\ IdleReview
    /\ IdleLink
    /\ IdleEvent
    /\ IdleJWT
    /\ IdleMatch
    /\ IdleGroup
    /\ groupRepository = NoRepo
    /\ projectResult = NoProjectResult
    /\ fileReads = <<>>
    /\ taskPatches = <<>>
    /\ fileItem = NoFileItem
    /\ repositoryList = <<>>
    /\ fileInfoResult = NoFileInfoResult
    /\ repoID2FileItemList = EmptyMap
    /\ request \in Deliveries
    /\ findErr \in BOOLEAN
    /\ repos \in {PushWithIDs(a) : a \in SeqsUpTo(PushRepoAttrs, MaxRepos)}
    /\ findErr => repos = <<>>
    /\ distinctFileList \in PushFileLists
    /\ diff \in {[called |-> FALSE, err |-> d.err, list |-> d.list] : d \in DiffAnswers}
    /\ storeAnswers \in [{distinctFileList[k].FileName : k \in 1..Len(distinctFileList)}
                            -> PrepareOutcomes]
    /\ storeFailures \in [createIssue : BOOLEAN, createActivity : BOOLEAN]
    /\ featureMultiTenancy \in BOOLEAN
    /\ ~Processable(request) =>
           /\ Len(repos) <= 1
           /\ distinctFileList = <<>>
           /\ diff.list = <<>>
           /\ storeFailures = NoFailures
           /\ featureMultiTenancy
    /\ filterResult = NoFilterResult
    /\ filteredDistinctFileList = <<>>
    /\ response = NoResponse
    /\ issues = <<>>
    /\ activities = <<>>

\* The orders in which a run of the sort can leave the files of fileList
\* that compare equal: the order of the list when no two do.
NamesOf(fileList) == [k \in 1..Len(fileList) |-> fileList[k].FileName]

HasTies(fileList) ==
    \E i, j \in 1..Len(fileList) :
        /\ i # j
        /\ fileList[i].Database = fileList[j].Database
        /\ fileList[i].Version = fileList[j].Version

TieOrders(fileList) ==
    IF HasTies(fileList)
    THEN Orders({fileList[k].FileName : k \in 1..Len(fileList)})
    ELSE {NamesOf(fileList)}

\* The keys of the map repoID2FileItemList that processPushEvent ranges
\* over for this delivery (none when it does not get that far).
KeysAfterFilter(fr) ==
    IF Processable(request) /\ fr.err = "" /\ ~diff.err
    THEN DOMAIN groupFileInfoByRepo(
             filterFilesByCommitsDiff(distinctFileList,
                 [err |-> diff.err, list |-> diff.list]).list,
             fr.list)
    ELSE {}

MapKeys == KeysAfterFilter(filterRepository(repos, findErr, request))

\* One delivery handled from the first line of the handler to its response.
PushCall ==
    /\ response = NoResponse
    /\ \E order \in Orders(MapKeys),
          dbOrder \in Orders(PushDatabases),
          tie \in TieOrders(distinctFileList) :
          \E r \in {pushHandler(request, repos, findErr, distinctFileList,
                         [err |-> diff.err, list |-> diff.list],
                         storeAnswers, storeFailures, featureMultiTenancy,
                         order, dbOrder, tie)} :
             /\ response' = [status |-> r.status, body |-> r.body]
             /\ filterResult' = r.filterResult
             /\ diff' = [diff EXCEPT !.called = r.push.diffCalled]
             /\ filteredDistinctFileList' = r.push.filtered
             /\ repoID2FileItemList' = r.push.grouped
             /\ issues' = r.push.issues
             /\ activities' = r.push.activities
             /\ fileReads' = r.push.reads
             /\ taskPatches' = r.push.patches
    /\ UNCHANGED <<varsEvent, varsJWT, varsFormat, varsReview, varsLink, varsAdvice, varsMatch, varsGroup, fileItem, repositoryList, fileInfoResult,
                   repos, findErr, request, distinctFileList, groupRepository,
                   storeAnswers, storeFailures, featureMultiTenancy, projectResult>>

NextPush == PushCall

SpecPush == InitPush /\ [][NextPush]_vars

PushDone == response # NoResponse

\* The kind of the delivery was read: GitLab carries it in the body, GitHub
\* in a header.
KindRead == request.provider = "github" \/ request.bodyOK

NothingCreated == issues = <<>> /\ activities = <<>>

\* C5 as stated: every ping and every other non-push delivery is answered
\* 200 and creates no issue and no activity.
C5_Original ==
    (PushDone /\ KindRead /\ request.kind # "push")
        => (response.status = 200 /\ NothingCreated)

\* C5: a GitHub ping is answered 200; every other non-push delivery (any
\* non-push kind on GitLab, any kind but ping and push on GitHub) is rejected
\* with 400; neither creates an issue or an activity.
C5_PingAcceptedOthersRejected ==
    (PushDone /\ KindRead /\ request.kind # "push")
        => /\ response.status =
                  IF request.provider = "github" /\ request.kind = "ping"
                  THEN 200 ELSE 400
           /\ NothingCreated

C5_Witness ==
    /\ PushDone
    /\ request.provider = "github"
    /\ request.kind = "ping"
    /\ response.status = 200
    /\ NothingCreated

InDiff(file) == \E j \in 1..Len(diff.list) : diff.list[j] = file.FileName

\* C6: filterFilesByCommitsDiff returns the files of the distinct file list
\* whose path is in the diff list, once each and in their order; when none
\* is, the request succeeds and creates no issue and no activity.
C6_DiffIntersection ==
    (PushDone /\ diff.called /\ ~diff.err)
        => /\ filteredDistinctFileList = SelectSeq(distinctFileList, InDiff)
           /\ \A i, j \in 1..Len(filteredDistinctFileList) :
                  filteredDistinctFileList[i] = filteredDistinctFileList[j] => i = j
           /\ filteredDistinctFileList = <<>> =>
                  (response.status = 200 /\ NothingCreated)

C6_Witness ==
    /\ PushDone
    /\ diff.called
    /\ ~diff.err
    /\ distinctFileList # <<>>
    /\ diff.list # <<>>
    /\ filteredDistinctFileList = <<>>
    /\ response.status = 200
    /\ NothingCreated

\* C7: a failure of the diff-list call is recorded as an ignored-file
\* activity and the push request does not fail.
C7_DiffFailureRecoverable ==
    (PushDone /\ diff.called /\ diff.err)
        => /\ response.status = 200
           /\ \E k \in 1..Len(activities) : activities[k].Level = "WARN"

SameIssue(x, y) == x.ProjectID = y.ProjectID /\ x.Name = y.Name

\* The info-level activities that record the issue.
ActivitiesOf(issue) ==
    {k \in 1..Len(activities) :
        /\ activities[k].Level = "INFO"
        /\ activities[k].ContainerID = issue.ProjectID
        /\ activities[k].issue = issue.Name}

\* C17: at the end of a push event every issue that was created has an
\* info-level project activity that records it.
C17_EveryIssueHasActivity ==
    PushDone =>
        \A i \in 1..Len(issues) :
            Cardinality(ActivitiesOf(issues[i]))
                >= Cardinality({j \in 1..Len(issues) : SameIssue(issues[j], issues[i])})

\* The file was skipped for a recoverable reason: it is a file the project
\* prepares, and its content cannot be read or, outside tenant mode, its
\* database cannot be resolved.
Skipped(fi) ==
    /\ fi.fType = migrationFileType \/ fi.repository.SchemaChangeType = "SDL"
    /\ \/ ~storeAnswers[fi.item.FileName].read
       \/ /\ fi.repository.TenantMode # "TENANT"
          /\ storeAnswers[fi.item.FileName].found = <<>>

Reported(fi) ==
    \E n \in 1..Len(activities) :
        activities[n] = getIgnoredFileActivityCreate(fi.repository.ProjectID,
                                                     fi.item.FileName)

\* C18: every file of a push event that is skipped for a recoverable reason
\* has a warning-level project activity persisted for it, whatever the other
\* files of its group do (while the calls that persist succeed and the push
\* is answered 200).
C18_SkippedFilesReported ==
    (PushDone /\ response.status = 200 /\ storeFailures = NoFailures)
        => \A id \in DOMAIN repoID2FileItemList :
               \A k \in 1..Len(repoID2FileItemList[id]) :
                   Skipped(repoID2FileItemList[id][k])
                       => Reported(repoID2FileItemList[id][k])

(***************************************************************************)
(* The grouping of processPushEvent on its own: the filtered files and the *)
(* links are drawn, then groupFileInfoByRepo and, for every repository,    *)
(* groupFileInfoByDatabase are applied.                                    *)
(***************************************************************************)
fileG == <<"a", "/", "g">>
GroupFileNames == {fileF, fileG, fileH}
GroupDatabases == {<<"d", "a">>, <<"d", "b">>}
GroupVersions == {<<"1">>, <<"1", "0">>, <<"2">>}

GroupFileItems ==
    [FileName : GroupFileNames, IsYAML : {FALSE}, Type : {"MIGRATE"},
     Database : GroupDatabases, Version : GroupVersions, ItemType : {"added"}]

\* GetDistinctFileList yields every file name once.
GroupFileLists ==
    {l \in SeqsUpTo(GroupFileItems, MaxFiles) :
        \A i, j \in 1..Len(l) : l[i].FileName = l[j].FileName => i = j}

GroupRepoAttrs ==
    [BaseDirectory : BaseDirectories, TenantMode : {"DISABLED"},
     DBNameTemplate : {""}, Shape : {[n \in GroupFileNames |-> "mig"]}]

NotGrouped == [x \in {0} |-> EmptyMap]

InitGroup ==
    /\ IdleAdvice
    /\ IdleFormat
    /\ IdleReview
    /\ IdleLink
    /\ IdleEvent
    /\ IdleJWT
    /\ IdleMatch
    /\ IdleFilter
    /\ IdleProject
    /\ distinctFileList = <<>>
    /\ diff = NoDiff
    /\ response = NoResponse
    /\ issues = <<>>
    /\ activities = <<>>
    /\ fileItem = NoFileItem
    /\ fileInfoResult = NoFileInfoResult
    /\ fileInfoListUnsorted = <<>>
    /\ fileInfoListSorted = <<>>
    /\ filteredDistinctFileList \in GroupFileLists
    /\ repositoryList \in {WithIDs(a) : a \in SeqsUpTo(GroupRepoAttrs, MaxRepos)}
    /\ repoID2FileItemList = EmptyMap
    /\ dbID2FileInfoList = NotGrouped

GroupCall ==
    /\ dbID2FileInfoList = NotGrouped
    /\ \E m \in {groupFileInfoByRepo(filteredDistinctFileList, repositoryList)} :
          /\ repoID2FileItemList' = m
          /\ dbID2FileInfoList' = [id \in DOMAIN m |-> groupFileInfoByDatabase(m[id])]
    /\ UNCHANGED <<varsEvent, varsJWT, varsFormat, varsReview, varsLink, varsAdvice, varsMatch, varsFilter, varsProject, fileItem, repositoryList,
                   fileInfoResult, distinctFileList, diff, filteredDistinctFileList,
                   response, issues, activities, fileInfoListUnsorted,
                   fileInfoListSorted>>

NextGroup == GroupCall

SpecGroup == InitGroup /\ [][NextGroup]_vars

GroupDone == dbID2FileInfoList # NotGrouped

\* The links whose base directory holds the file: with every link parsing
\* every file as a migration, the file is classified iff there is one.
LinksOf(item) ==
    {i \in 1..Len(repositoryList) :
        HasPrefix(item.FileName, repositoryList[i].BaseDirectory)}

\* The places <<repository ID, database name, index>> at which the file sits
\* in the groups.
PlacesOf(item) ==
    UNION {UNION {{<<id, d, n>> :
                     n \in {n \in 1..Len(dbID2FileInfoList[id][d]) :
                               dbID2FileInfoList[id][d][n].item = item}} :
                  d \in DOMAIN dbID2FileInfoList[id]} :
           id \in DOMAIN dbID2FileInfoList}

\* C11: after groupFileInfoByRepo and groupFileInfoByDatabase every
\* classified file sits in exactly one (repository, database) group, that of
\* its own link and its own database name, so every group holds files of one
\* link and one database only; an unclassified file sits in none.
C11_OneGroupPerFile ==
    GroupDone =>
        \A k \in 1..Len(filteredDistinctFileList) :
            LET item == filteredDistinctFileList[k]
            IN IF Cardinality(LinksOf(item)) = 1
               THEN /\ Cardinality(PlacesOf(item)) = 1
                    /\ \A pl \in PlacesOf(item) :
                          /\ pl[1] = repositoryList[CHOOSE i \in LinksOf(item) : TRUE].ID
                          /\ pl[2] = item.Database
                          /\ dbID2FileInfoList[pl[1]][pl[2]][pl[3]].repository.ID = pl[1]
                          /\ dbID2FileInfoList[pl[1]][pl[2]][pl[3]].migrationInfo.Database
                                 = pl[2]
               ELSE PlacesOf(item) = {}

C11_Witness ==
    /\ GroupDone
    /\ Cardinality(DOMAIN dbID2FileInfoList) = 2
    /\ \E id \in DOMAIN dbID2FileInfoList :
          /\ Cardinality(DOMAIN dbID2FileInfoList[id]) = 2
          /\ \A d \in DOMAIN dbID2FileInfoList[id] : Len(dbID2FileInfoList[id][d]) = 1
    /\ Len(filteredDistinctFileList) = 3

(***************************************************************************)
(* sortFilesBySchemaVersion on its own: a list of classified files is      *)
(* drawn, then the sort is applied.                                        *)
(***************************************************************************)
SortRepository ==
    WithIDs(<<[BaseDirectory |-> <<>>, TenantMode |-> "DISABLED",
               DBNameTemplate |-> "", Shape |-> [n \in GroupFileNames |-> "mig"]]>>)

SortInputs ==
    {groupFileInfoByRepo(l, SortRepository)[1] : l \in GroupFileLists \ {<<>>}}

InitSort ==
    /\ IdleAdvice
    /\ IdleFormat
    /\ IdleReview
    /\ IdleLink
    /\ IdleEvent
    /\ IdleJWT
    /\ IdleMatch
    /\ IdleFilter
    /\ IdleFile
    /\ IdlePush
    /\ IdleProject
    /\ dbID2FileInfoList = EmptyMap
    /\ fileInfoListUnsorted \in SortInputs
    /\ fileInfoListSorted = <<>>

SortCall ==
    /\ fileInfoListSorted = <<>>
    /\ \E tie \in Orders({fileInfoListUnsorted[k].item.FileName :
                            k \in 1..Len(fileInfoListUnsorted)}) :
          fileInfoListSorted' = sortFilesBySchemaVersion(fileInfoListUnsorted, tie)
    /\ UNCHANGED <<varsEvent, varsJWT, varsFormat, varsReview, varsLink, varsAdvice, varsMatch, varsFilter, varsFile, varsPush, varsProject,
                   dbID2FileInfoList, fileInfoListUnsorted>>

NextSort == SortCall

SpecSort == InitSort /\ [][NextSort]_vars

SortDone == fileInfoListSorted # <<>>

SameKey(x, y) ==
    /\ x.migrationInfo.Database = y.migrationInfo.Database
    /\ x.migrationInfo.Version = y.migrationInfo.Version

\* The index of the file in the list that was given to the sort.
Discovery(x) ==
    CHOOSE k \in 1..Len(fileInfoListUnsorted) : fileInfoListUnsorted[k] = x

IsPermutation ==
    /\ Len(fileInfoListSorted) = Len(fileInfoListUnsorted)
    /\ \A k \in 1..Len(fileInfoListUnsorted) :
          \E n \in 1..Len(fileInfoListSorted) :
              fileInfoListSorted[n] = fileInfoListUnsorted[k]

Ascending ==
    \A i, j \in 1..Len(fileInfoListSorted) :
        i < j => ~FileLess(fileInfoListSorted[j], fileInfoListSorted[i])

Stable ==
    \A i, j \in 1..Len(fileInfoListSorted) :
        (i < j /\ SameKey(fileInfoListSorted[i], fileInfoListSorted[j]))
            => Discovery(fileInfoListSorted[i]) < Discovery(fileInfoListSorted[j])

\* C12: sortFilesBySchemaVersion returns a permutation of its input that is
\* ascending by (database name, schema version) under ordinal string
\* comparison, and files with equal database name and equal schema version
\* keep their discovery order.
C12_StableSort ==
    SortDone => (IsPermutation /\ Ascending /\ Stable)

(***************************************************************************)
(* processFilesInProject on its own: the link, the sorted files of one     *)
(* (repository, database) group, the answers of the provider and the       *)
(* store, and the license are drawn; one action runs the function.         *)
(***************************************************************************)
fileS == <<"a", "/", "s">>
fileT == <<"a", "/", "t">>
shop == <<"s", "h", "o", "p">>
ProjectFileNames == {fileS, fileT, fileF, fileG}

\* a/s and a/t are schema files of database shop; a/f and a/g are migration
\* files of shop with versions 1 and 2, a/g possibly a YAML file.
ProjectFileItems ==
    [FileName : {fileS, fileT}, IsYAML : {FALSE}, Type : {"MIGRATE"},
     Database : {shop}, Version : {<<>>}, ItemType : {"added"}]
    \cup [FileName : {fileF}, IsYAML : {FALSE}, Type : {"MIGRATE", "DATA", "BASELINE"},
          Database : {shop}, Version : {<<"1">>}, ItemType : {"added"}]
    \cup [FileName : {fileF}, IsYAML : {FALSE}, Type : {"MIGRATE"},
          Database : {shop}, Version : {<<"1">>}, ItemType : {"modified"}]
    \cup [FileName : {fileG}, IsYAML : BOOLEAN, Type : {"DATA"},
          Database : {shop}, Version : {<<"2">>}, ItemType : {"added"}]

ProjectFileLists ==
    {l \in SeqsUpTo(ProjectFileItems, MaxFiles) :
        /\ l # <<>>
        /\ \A i, j \in 1..Len(l) :
               i < j => Rank(<<fileS, fileT, fileF, fileG>>, l[i].FileName)
                            < Rank(<<fileS, fileT, fileF, fileG>>, l[j].FileName)}

ProjectLink(mode, change) ==
    PushWithIDs(<<[Archived |-> FALSE, HasVCS |-> TRUE, ExternalID |-> "r1",
                   WebhookSecretToken |-> "s1", BranchFilter |-> <<"a", "*">>,
                   BaseDirectory |-> <<"a">>, TenantMode |-> mode,
                   DBNameTemplate |-> "", SchemaChangeType |-> change,
                   Shape |-> [n \in ProjectFileNames |->
                                 IF n \in {fileS, fileT} THEN "schema" ELSE "mig"]]>>)[1]

ProjectLinks ==
    {ProjectLink(mode, change) : mode \in {"DISABLED", "TENANT"}, change \in {"DDL", "SDL"}}

\* The groups processPushEvent hands to processFilesInProject for a link:
\* the classified files of a push, sorted.
ListUnder(id, m) == IF id \in DOMAIN m THEN m[id] ELSE <<>>

ProjectGroups(link) ==
    {sortFilesBySchemaVersion(ListUnder(link.ID, groupFileInfoByRepo(l, <<link>>)),
                              NamesOf(l)) : l \in ProjectFileLists} \ {<<>>}

FoundLists == {[k \in 1..n |-> k] : n \in 0..MaxFound}

\* The answers that matter for a file of a link: the databases found
\* unless the link is tenant-mode and the file no YAML file, the YAML content
\* only for a YAML file of a tenant-mode link, the tasks only for a modified
\* file of a link that is not tenant-mode.  The others stay at a default.
AnswersFor(link, item) ==
    {a \in [read : BOOLEAN, yaml : {"bad", "empty", "one"}, found : FoundLists,
            tasks : [1..MaxFound -> 0..2], findTask : BOOLEAN,
            patch : {"ok", "noIssue", "fail"}] :
        /\ (~a.read \/ ~item.IsYAML \/ link.TenantMode # "TENANT") => a.yaml = "one"
        /\ (~a.read \/ a.yaml # "one" \/ (link.TenantMode = "TENANT" /\ ~item.IsYAML))
               => a.found = <<1>>
        /\ (~a.read \/ item.ItemType # "modified" \/ a.found = <<>>
                \/ link.TenantMode = "TENANT")
               => (a.findTask /\ a.patch = "ok" /\ \A d \in 1..MaxFound : a.tasks[d] = 0)
        /\ ~a.findTask => (a.patch = "ok" /\ \A d \in 1..MaxFound : a.tasks[d] = 0)
        /\ \A d \in 1..MaxFound : d > Len(a.found) => a.tasks[d] = 0
        /\ a.patch # "ok" => \E d \in 1..MaxFound : a.tasks[d] = 1}

\* The function f with name mapped to a.
WithAnswer(f, name, a) ==
    [x \in (DOMAIN f) \cup {name} |-> IF x = name THEN a ELSE f[x]]

RECURSIVE AnswersFrom(_, _, _)
AnswersFrom(link, fileInfoList, k) ==
    IF k > Len(fileInfoList) THEN {NoAnswers}
    ELSE {WithAnswer(f, fileInfoList[k].item.FileName, a) :
              f \in AnswersFrom(link, fileInfoList, k + 1),
              a \in AnswersFor(link, fileInfoList[k].item)}

AnswersOf(link, fileInfoList) == AnswersFrom(link, fileInfoList, 1)

InitProject ==
    /\ IdleAdvice
    /\ IdleFormat
    /\ IdleReview
    /\ IdleLink
    /\ IdleEvent
    /\ IdleJWT
    /\ IdleMatch
    /\ IdleFilter
    /\ IdleFile
    /\ IdlePush
    /\ dbID2FileInfoList = EmptyMap
    /\ fileInfoListUnsorted = <<>>
    /\ groupRepository \in ProjectLinks
    /\ fileInfoListSorted \in ProjectGroups(groupRepository)
    /\ storeAnswers \in AnswersOf(groupRepository, fileInfoListSorted)
    /\ storeFailures \in [createIssue : BOOLEAN, createActivity : BOOLEAN]
    /\ featureMultiTenancy \in BOOLEAN
    /\ projectResult = NoProjectResult
    /\ fileReads = <<>>
    /\ taskPatches = <<>>

ProjectCall ==
    /\ projectResult = NoProjectResult
    /\ \E r \in {processFilesInProject(groupRepository, fileInfoListSorted,
                     storeAnswers, storeFailures, featureMultiTenancy)} :
          /\ projectResult' = [created |-> r.created, acts |-> r.acts,
                               err |-> r.err, msg |-> r.msg]
          /\ issues' = r.issues
          /\ activities' = r.persisted
          /\ fileReads' = r.reads
          /\ taskPatches' = r.patches
    /\ UNCHANGED <<varsEvent, varsJWT, varsFormat, varsReview, varsLink, varsAdvice, varsMatch, varsFilter, varsFile, distinctFileList, diff,
                   filteredDistinctFileList, response, dbID2FileInfoList,
                   fileInfoListUnsorted, fileInfoListSorted, groupRepository,
                   storeAnswers, storeFailures, featureMultiTenancy>>

NextProject == ProjectCall

SpecProject == InitProject /\ [][NextProject]_vars

ProjectDone == projectResult # NoProjectResult

Tenant == groupRepository.TenantMode = "TENANT"
SDL == groupRepository.SchemaChangeType = "SDL"
Rejected == Tenant /\ ~featureMultiTenancy

\* C13: a group of a tenant-mode project without the multi-tenancy license
\* is rejected with 403 before any file is read: no issue, no task patch and
\* no activity is created for it.
C13_UnlicensedTenantRejected ==
    (ProjectDone /\ Rejected)
        => /\ projectResult.err = "403"
           /\ ~projectResult.created
           /\ projectResult.acts = <<>>
           /\ fileReads = <<>>
           /\ issues = <<>>
           /\ taskPatches = <<>>
           /\ activities = <<>>

C13_Witness ==
    /\ ProjectDone
    /\ Rejected
    /\ Len(fileInfoListSorted) = 2
    /\ \A k \in 1..Len(fileInfoListSorted) :
          storeAnswers[fileInfoListSorted[k].item.FileName].read
    /\ storeFailures = NoFailures
    /\ projectResult.err = "403"
    /\ fileReads = <<>>
    /\ issues = <<>>

SchemaFile(k) == fileInfoListSorted[k].fType = schemaFileType
NameAt(k) == fileInfoListSorted[k].item.FileName

\* Preparing the schema file fails: its content cannot be read or, outside
\* tenant mode, its database cannot be resolved.
SDLFileFails(k) ==
    \/ ~storeAnswers[NameAt(k)].read
    \/ ~Tenant /\ storeAnswers[NameAt(k)].found = <<>>

IssuesOf(name) ==
    {i \in 1..Len(issues) :
        \E n \in 1..Len(issues[i].DetailList) : issues[i].DetailList[n].file = name}

\* C14: in an SDL project a schema file whose content cannot be read or
\* whose database cannot be resolved yields an ignored-file activity and no
\* issue, and does not abort the group: every other schema file of the group
\* still gets its issue (while the calls that persist succeed).
C14_SDLFilesIndependent ==
    (ProjectDone /\ SDL /\ ~Rejected /\ storeFailures = NoFailures)
        => /\ projectResult.err = ""
           /\ \A k \in 1..Len(fileInfoListSorted) :
                 SchemaFile(k) =>
                     IF SDLFileFails(k)
                     THEN /\ IssuesOf(NameAt(k)) = {}
                          /\ \E n \in 1..Len(projectResult.acts) :
                                projectResult.acts[n] =
                                    getIgnoredFileActivityCreate(
                                        groupRepository.ProjectID, NameAt(k))
                     ELSE /\ Cardinality(IssuesOf(NameAt(k))) = 1
                          /\ \A i \in IssuesOf(NameAt(k)) :
                                /\ issues[i].Name = IssueName(shop, "Alter schema")
                                /\ \A n \in 1..Len(issues[i].DetailList) :
                                      issues[i].DetailList[n].file = NameAt(k)

C14_Witness ==
    /\ ProjectDone
    /\ SDL
    /\ ~Tenant
    /\ storeFailures = NoFailures
    /\ Len(fileInfoListSorted) = 3
    /\ SchemaFile(1) /\ SchemaFile(2) /\ ~SchemaFile(3)
    /\ storeAnswers[NameAt(1)].read /\ storeAnswers[NameAt(1)].found = <<>>
    /\ ~SDLFileFails(2)
    /\ Len(projectResult.acts) = 1
    /\ projectResult.acts[1].file = NameAt(1)
    /\ IssuesOf(NameAt(1)) = {}
    /\ IssuesOf(NameAt(2)) = {1}
    /\ IssuesOf(NameAt(3)) = {2}
    /\ projectResult.created

\* The migration details of the migration files from index k on, in the
\* order of the sorted list.
RECURSIVE MigrationDetailsFrom(_)
MigrationDetailsFrom(k) ==
    IF k > Len(fileInfoListSorted) THEN <<>>
    ELSE (IF SchemaFile(k) THEN <<>>
          ELSE prepareIssueFromFile(groupRepository, fileInfoListSorted[k],
                                    storeAnswers[NameAt(k)]).details)
         \o MigrationDetailsFrom(k + 1)

MigrationFileNames ==
    {NameAt(k) : k \in {k \in 1..Len(fileInfoListSorted) : ~SchemaFile(k)}}

\* The issues that hold a detail of a migration file.
MigrationIssues == UNION {IssuesOf(name) : name \in MigrationFileNames}

SchemaKind(detail) == detail.MigrationType \in {"MIGRATE", "BASELINE"}

\* C15: the migration details of the migration files of a group are placed,
\* in sorted file order, into one issue, whose type is schema update iff a
\* detail has kind migrate or baseline and data update otherwise (while the
\* calls that persist succeed).
C15_OneIssueForMigrationFiles ==
    (ProjectDone /\ ~Rejected /\ storeFailures = NoFailures)
        => IF MigrationDetailsFrom(1) = <<>> THEN MigrationIssues = {}
           ELSE /\ Cardinality(MigrationIssues) = 1
                /\ \A i \in MigrationIssues :
                      /\ issues[i].DetailList = MigrationDetailsFrom(1)
                      /\ issues[i].Type =
                             IF \E n \in 1..Len(issues[i].DetailList) :
                                    SchemaKind(issues[i].DetailList[n])
                             THEN "SCHEMA_UPDATE" ELSE "DATA_UPDATE"

C15_Witness ==
    /\ ProjectDone
    /\ ~Tenant
    /\ storeFailures = NoFailures
    /\ Len(fileInfoListSorted) = 2
    /\ NameAt(1) = fileF /\ NameAt(2) = fileG
    /\ fileInfoListSorted[1].migrationInfo.Type = "BASELINE"
    /\ Len(issues) = 1
    /\ Len(issues[1].DetailList) = 3
    /\ issues[1].DetailList[1].file = fileF
    /\ issues[1].DetailList[2].file = fileG
    /\ issues[1].DetailList[3].file = fileG
    /\ issues[1].Type = "SCHEMA_UPDATE"

Resolvable(k) ==
    /\ storeAnswers[NameAt(k)].read
    /\ storeAnswers[NameAt(k)].found # <<>>

\* The group of database shop that holds one schema file and one added
\* migrate file, both readable and resolvable.
SchemaAndMigrate ==
    /\ Len(fileInfoListSorted) = 2
    /\ SchemaFile(1)
    /\ ~SchemaFile(2)
    /\ fileInfoListSorted[1].migrationInfo.Database = shop
    /\ fileInfoListSorted[2].migrationInfo.Database = shop
    /\ fileInfoListSorted[2].migrationInfo.Type = "MIGRATE"
    /\ fileInfoListSorted[2].item.ItemType = "added"
    /\ Resolvable(1)
    /\ Resolvable(2)

\* C16: for a group of database shop with one schema file and one migrate
\* file a project that is not SDL gets exactly one issue, named
\* "[shop] Alter schema", and an SDL project gets exactly two, one per file
\* (while the calls that persist succeed).
C16_SchemaAndMigrateFile ==
    (ProjectDone /\ SchemaAndMigrate /\ ~Rejected /\ storeFailures = NoFailures)
        => IF SDL
           THEN /\ Len(issues) = 2
                /\ IssuesOf(NameAt(1)) = {1}
                /\ IssuesOf(NameAt(2)) = {2}
           ELSE /\ Len(issues) = 1
                /\ issues[1].Name = IssueName(shop, "Alter schema")
                /\ IssuesOf(NameAt(1)) = {}

C16_Witness ==
    /\ ProjectDone
    /\ SchemaAndMigrate
    /\ ~Tenant
    /\ ~SDL
    /\ storeFailures = NoFailures
    /\ Len(issues) = 1
    /\ issues[1].Name = IssueName(shop, "Alter schema")
    /\ issues[1].Type = "SCHEMA_UPDATE"

Modified(k) == ~SchemaFile(k) /\ fileInfoListSorted[k].item.ItemType = "modified"

PatchesOf(name, d) ==
    {n \in 1..Len(taskPatches) :
        taskPatches[n] = [DatabaseID |-> d, file |-> name]}

\* C19: outside tenant mode a modified migration file yields no migration
\* detail and no issue; a task of a database is patched with the file only
\* when FindTask returned exactly one task for it, and none is patched for a
\* database with more than one.
C19_ModifiedFilePatchesOneTask ==
    (ProjectDone /\ ~Tenant)
        => \A k \in 1..Len(fileInfoListSorted) :
               Modified(k) =>
                   /\ IssuesOf(NameAt(k)) = {}
                   /\ \A d \in 1..MaxFound :
                         /\ PatchesOf(NameAt(k), d) # {} =>
                                /\ storeAnswers[NameAt(k)].tasks[d] = 1
                                /\ Cardinality(PatchesOf(NameAt(k), d)) = 1
                         /\ storeAnswers[NameAt(k)].tasks[d] > 1 =>
                                PatchesOf(NameAt(k), d) = {}

C19_Witness ==
    /\ ProjectDone
    /\ ~Tenant
    /\ Len(fileInfoListSorted) = 1
    /\ Modified(1)
    /\ storeAnswers[NameAt(1)].found = <<1, 2>>
    /\ storeAnswers[NameAt(1)].tasks[1] = 1
    /\ storeAnswers[NameAt(1)].tasks[2] = 2
    /\ taskPatches = <<[DatabaseID |-> 1, file |-> NameAt(1)]>>
    /\ issues = <<>>
    /\ projectResult.err = ""

(***************************************************************************)
(* sqlAdviceForFile on its own: a file of a pull request, the links and    *)
(* the answers of the store and the provider are drawn, the file is        *)
(* classified as the SQL review handler does, then the function is         *)
(* applied to it.                                                          *)
(***************************************************************************)
ReviewOutcomes ==
    {"noPolicy", "policyErr", "typeErr", "catalogErr", "driverErr", "connErr",
     "checkErr", "ok"}

\* The review of a database matters only if it is found and the file read.
AdviceAnswers ==
    {a \in [read : BOOLEAN, found : FoundLists, review : [1..MaxFound -> ReviewOutcomes]] :
        /\ (a.found = <<>>) => a.read
        /\ \A d \in 1..MaxFound : (d > Len(a.found) \/ ~a.read) => a.review[d] = "ok"}

AdviceLinks ==
    {a \in RepoAttrs : \A n \in FileNames : a.Shape[n] \in {"mig", "schema"}}

\* The one classified file of the pull request.
ReviewedFile == repoID2FileItemList[CHOOSE id \in DOMAIN repoID2FileItemList : TRUE][1]

InitAdvice ==
    /\ IdleFormat
    /\ IdleReview
    /\ IdleLink
    /\ IdleEvent
    /\ IdleJWT
    /\ IdleMatch
    /\ IdleFilter
    /\ IdlePush
    /\ IdleGroup
    /\ groupRepository = NoRepo
    /\ storeFailures = NoFailures
    /\ featureMultiTenancy = FALSE
    /\ projectResult = NoProjectResult
    /\ fileReads = <<>>
    /\ taskPatches = <<>>
    /\ fileItem \in FileItems
    /\ repositoryList \in {WithIDs(<<a>>) : a \in AdviceLinks}
    /\ fileInfoResult = getFileInfo(fileItem, repositoryList)
    /\ repoID2FileItemList = groupFileInfoByRepo(<<fileItem>>, repositoryList)
    /\ repoID2FileItemList # EmptyMap
    /\ storeAnswers \in [{fileItem.FileName} -> AdviceAnswers]
    /\ adviceResult = NoAdvice
    /\ adviceCalls = <<>>

AdviceCall ==
    /\ adviceResult = NoAdvice
    /\ \E r \in {sqlAdviceForFile(ReviewedFile, storeAnswers[ReviewedFile.item.FileName])} :
          /\ adviceResult' = [adviceList |-> r.adviceList, err |-> r.err]
          /\ adviceCalls' = r.calls
    /\ UNCHANGED <<varsEvent, varsJWT, varsFormat, varsReview, varsLink, varsMatch, varsFilter, varsFile, varsPush, varsGroup, varsProject>>

NextAdvice == AdviceCall

SpecAdvice == InitAdvice /\ [][NextAdvice]_vars

AdviceDone == adviceResult # NoAdvice

\* C20: for a file of a tenant-mode project sqlAdviceForFile returns one
\* advice, a warning with the unsupported code at line 1, and no error; it
\* resolves no database, reads no file and opens no database connection.
C20_TenantAdviceUnsupported ==
    (AdviceDone /\ ReviewedFile.repository.TenantMode = "TENANT")
        => /\ adviceResult.adviceList =
                  <<[Status |-> "WARN", Code |-> "Unsupported", Line |-> 1]>>
           /\ adviceResult.err = ""
           /\ adviceCalls = <<>>

C20_Witness ==
    /\ AdviceDone
    /\ ReviewedFile.repository.TenantMode = "TENANT"
    /\ storeAnswers[fileItem.FileName].read
    /\ storeAnswers[fileItem.FileName].found = <<1, 2>>
    /\ storeAnswers[fileItem.FileName].review[1] = "ok"
    /\ Len(adviceResult.adviceList) = 1
    /\ adviceResult.adviceList[1].Code = "Unsupported"
    /\ adviceCalls = <<>>

\* The answers for the reviewed file, its candidate databases in resolution
\* order, and the calls made for one of them.
ReviewAnswer == storeAnswers[fileItem.FileName]

Candidates == ReviewAnswer.found

CallsFor(d) == SelectSeq(adviceCalls, LAMBDA c : c.database = d)

CallNames(calls) == {calls[i].call : i \in 1..Len(calls)}

\* The environment of candidate k has a rule set; its rule set was fetched.
Configured(k) == ReviewAnswer.review[Candidates[k]] \notin {"noPolicy", "policyErr"}

Checked(k) ==
    \E i \in 1..Len(adviceCalls) :
        /\ adviceCalls[i].database = Candidates[k]
        /\ adviceCalls[i].call = "GetNormalSQLReviewPolicy" => adviceCalls[i].ok

SkippedBefore(k) ==
    \A j \in 1..(k - 1) :
        /\ ReviewAnswer.review[Candidates[j]] = "noPolicy"
        /\ CallsFor(Candidates[j]) = <<Call("GetNormalSQLReviewPolicy", Candidates[j], FALSE)>>

NonTenantReview ==
    /\ AdviceDone
    /\ ReviewedFile.repository.TenantMode # "TENANT"
    /\ ReviewAnswer.read
    /\ Candidates # <<>>

\* C21: for a file of a project that is not tenant-mode, the candidate
\* database that is checked is the first one, in resolution order, whose
\* environment has a SQL review policy: the candidates before it were
\* skipped for having none, it is the only one checked, SQLReviewCheck runs
\* for no other database, and no call at all is made for a candidate after it.
C21_FirstMatchWins ==
    NonTenantReview =>
        \A k \in 1..Len(Candidates) :
            /\ Checked(k) =>
                  /\ Configured(k)
                  /\ SkippedBefore(k)
                  /\ \A j \in 1..Len(Candidates) : Checked(j) => j = k
                  /\ \A j \in (k + 1)..Len(Candidates) : CallsFor(Candidates[j]) = <<>>
            /\ (Configured(k) /\ SkippedBefore(k)) => Checked(k)
            /\ "SQLReviewCheck" \in CallNames(CallsFor(Candidates[k])) => Checked(k)
            /\ "GetDBConnection" \in CallNames(CallsFor(Candidates[k])) => Checked(k)

C21_Witness ==
    /\ NonTenantReview
    /\ Candidates = <<1, 2>>
    /\ ReviewAnswer.review[1] = "noPolicy"
    /\ ReviewAnswer.review[2] = "ok"
    /\ Checked(2)
    /\ ~Checked(1)
    /\ Call("SQLReviewCheck", 2, TRUE) \in {adviceCalls[i] : i \in 1..Len(adviceCalls)}
    /\ adviceResult.adviceList = ReviewedAdvice
    /\ adviceResult.err = ""

\* The databases for which a read-only driver was obtained, and those whose
\* driver was closed.
DriversObtained ==
    {adviceCalls[i].database : i \in {j \in 1..Len(adviceCalls) :
        adviceCalls[j].call = "GetReadOnlyDatabaseDriver" /\ adviceCalls[j].ok}}

DriversClosed ==
    {adviceCalls[i].database : i \in {j \in 1..Len(adviceCalls) :
        adviceCalls[j].call = "Close"}}

\* C22: when sqlAdviceForFile has returned, with advice or with an error,
\* every read-only database driver it obtained has been closed.
C22_EveryDriverClosed ==
    AdviceDone => DriversObtained \subseteq DriversClosed

\* The same for the returns other than a failure of GetDBConnection.
C22_ClosedUnlessConnectionFails ==
    (AdviceDone /\ \A i \in 1..Len(adviceCalls) :
                       adviceCalls[i].call = "GetDBConnection" => adviceCalls[i].ok)
        => DriversObtained \subseteq DriversClosed

(***************************************************************************)
(* The two report formatters.  adviceMap maps a file path to its advice    *)
(* list; order is the order in which the range over the map yields its     *)
(* keys.  A report is [Status, Content]: Content is the list of the test   *)
(* suites of the XML document for GitLab and the list of the messages for  *)
(* GitHub, each element with the values that are formatted into it.        *)
(***************************************************************************)
\* advisor.Ok, the code 0.
ZeroCode == "Ok"

\* A list of strings as it was given.
unsortedStrings(list) == list

RECURSIVE insertString(_, _)
insertString(sorted, x) ==
    IF sorted = <<>> THEN <<x>>
    ELSE IF StrLess(x, Head(sorted)) THEN <<x>> \o sorted
    ELSE <<Head(sorted)>> \o insertString(Tail(sorted), x)

RECURSIVE sortedFrom(_, _, _)
sortedFrom(list, k, sorted) ==
    IF k > Len(list) THEN sorted
    ELSE sortedFrom(list, k + 1, insertString(sorted, list[k]))

\* sort.Strings.
sortStrings(list) == sortedFrom(list, 1, <<>>)

reportLine(advice) == IF advice.Line <= 0 THEN 1 ELSE advice.Line

\* A status taken from the advice at hand whatever came before.
gitlabStatusLatest(status, advice) == advice.Status

gitlabStatus(status, advice) ==
    IF advice.Status = "ERROR" THEN advice.Status
    ELSE IF advice.Status = "WARN" /\ status # "ERROR" THEN advice.Status
    ELSE status

gitlabTestcase(filePath, advice) ==
    [classname |-> filePath, file |-> filePath, line |-> reportLine(advice),
     code |-> advice.Code, failure |-> TRUE]

\* One turn of the loop over the advices of a file that skips no advice.
gitlabTurnEveryCode(filePath, advice, acc) ==
    [status |-> gitlabStatus(acc.status, advice),
     testcaseList |-> Append(acc.testcaseList, gitlabTestcase(filePath, advice))]

\* One turn of the loop over the advices of a file; acc is
\* [status, testcaseList].
gitlabTurn(filePath, advice, acc) ==
    IF advice.Code = ZeroCode THEN acc
    ELSE [status |-> gitlabStatus(acc.status, advice),
          testcaseList |-> Append(acc.testcaseList, gitlabTestcase(filePath, advice))]

RECURSIVE gitlabAdvices(_, _, _, _)
gitlabAdvices(filePath, adviceList, k, acc) ==
    IF k > Len(adviceList) THEN acc
    ELSE gitlabAdvices(filePath, adviceList, k + 1, gitlabTurn(filePath, adviceList[k], acc))

\* The end of the turn for a file: its test suite, if it has a test case.
gitlabSuite(filePath, testsuiteList, acc) ==
    [Status |-> acc.status,
     Content |-> IF Len(acc.testcaseList) > 0
                 THEN Append(testsuiteList,
                             [name |-> filePath, testcaseList |-> acc.testcaseList])
                 ELSE testsuiteList]

RECURSIVE gitlabFiles(_, _, _, _)
gitlabFiles(m, fileList, k, report) ==
    IF k > Len(fileList) THEN report
    ELSE gitlabFiles(m, fileList, k + 1,
             gitlabSuite(fileList[k], report.Content,
                 gitlabAdvices(fileList[k], m[fileList[k]], 1,
                     [status |-> report.Status, testcaseList |-> <<>>])))

convertSQLAdviceToGitLabCIResult(m, order) ==
    gitlabFiles(m, sortStrings(order), 1, [Status |-> "SUCCESS", Content |-> <<>>])

githubMessage(filePath, advice) ==
    [prefix |-> IF advice.Status = "ERROR" THEN "error" ELSE "warning",
     file |-> filePath, line |-> reportLine(advice), code |-> advice.Code]

githubStatus(status, advice) ==
    IF advice.Status = "ERROR" THEN advice.Status
    ELSE IF status # "ERROR" THEN advice.Status
    ELSE status

\* One turn of the loop over the advices of a file; report is
\* [Status, Content].
githubTurn(filePath, advice, report) ==
    IF advice.Code = ZeroCode \/ advice.Status = "SUCCESS" THEN report
    ELSE [Status |-> githubStatus(report.Status, advice),
          Content |-> Append(report.Content, githubMessage(filePath, advice))]

RECURSIVE githubAdvices(_, _, _, _)
githubAdvices(filePath, adviceList, k, report) ==
    IF k > Len(adviceList) THEN report
    ELSE githubAdvices(filePath, adviceList, k + 1,
                       githubTurn(filePath, adviceList[k], report))

RECURSIVE githubFiles(_, _, _, _)
githubFiles(m, fileList, k, report) ==
    IF k > Len(fileList) THEN report
    ELSE githubFiles(m, fileList, k + 1,
                     githubAdvices(fileList[k], m[fileList[k]], 1, report))

convertSQLAdiceToGitHubActionResult(m, order) ==
    githubFiles(m, sortStrings(order), 1, [Status |-> "SUCCESS", Content |-> <<>>])

(***************************************************************************)
(* The formatters on their own: an advice map is drawn, then each          *)
(* formatter is applied to it, the range over the map yielding the keys in *)
(* any order.                                                              *)
(***************************************************************************)
FormatFiles == {fileF, fileH}

FormatAdvices ==
    [Status : {"SUCCESS", "WARN", "ERROR"}, Code : {ZeroCode, "NotFound"}, Line : {0}]
        \cup {[Status |-> "WARN", Code |-> "NotFound", Line |-> 3]}

AdviceMaps ==
    UNION {[S -> SeqsUpTo(FormatAdvices, MaxAdvice)] : S \in SUBSET FormatFiles}

InitFormat ==
    /\ IdleMatch
    /\ IdleFilter
    /\ IdleFile
    /\ IdlePush
    /\ IdleGroup
    /\ IdleProject
    /\ IdleAdvice
    /\ IdleReview
    /\ IdleLink
    /\ IdleEvent
    /\ IdleJWT
    /\ adviceMap \in AdviceMaps
    /\ gitlabResult = NoReport
    /\ githubResult = NoReport

GitLabFormatCall ==
    /\ gitlabResult = NoReport
    /\ \E order \in Orders(DOMAIN adviceMap) :
          gitlabResult' = convertSQLAdviceToGitLabCIResult(adviceMap, order)
    /\ UNCHANGED <<varsMatch, varsFilter, varsFile, varsPush, varsGroup, varsProject,
                   varsAdvice, varsReview, varsLink, varsEvent, varsJWT, adviceMap, githubResult>>

GitHubFormatCall ==
    /\ githubResult = NoReport
    /\ \E order \in Orders(DOMAIN adviceMap) :
          githubResult' = convertSQLAdiceToGitHubActionResult(adviceMap, order)
    /\ UNCHANGED <<varsMatch, varsFilter, varsFile, varsPush, varsGroup, varsProject,
                   varsAdvice, varsReview, varsLink, varsEvent, varsJWT, adviceMap, gitlabResult>>

NextFormat == GitLabFormatCall \/ GitHubFormatCall

SpecFormat == InitFormat /\ [][NextFormat]_vars

GitLabDone == gitlabResult # NoReport
GitHubDone == githubResult # NoReport

\* The advices of a map, as pairs of a file and an index, and the worst of
\* a set of statuses.
AdvicesOf(m) == UNION {{<<f, i>> : i \in 1..Len(m[f])} : f \in DOMAIN m}

NonZero(m) == {x \in AdvicesOf(m) : m[x[1]][x[2]].Code # ZeroCode}

Worst(m, S) ==
    IF \E x \in S : m[x[1]][x[2]].Status = "ERROR" THEN "ERROR"
    ELSE IF \E x \in S : m[x[1]][x[2]].Status = "WARN" THEN "WARN"
    ELSE "SUCCESS"

\* C27 as stated: each formatter returns the most severe status among all
\* the advices of all the files of the map, success for an empty map.
C27_Original ==
    /\ GitLabDone => gitlabResult.Status = Worst(adviceMap, AdvicesOf(adviceMap))
    /\ GitHubDone => githubResult.Status = Worst(adviceMap, AdvicesOf(adviceMap))

\* C27, amended: each formatter returns the most severe status (error over
\* warn over success) among the advices of the map whose code is not zero,
\* and success when the map has no such advice.
C27_WorstOfNonZero ==
    /\ GitLabDone => gitlabResult.Status = Worst(adviceMap, NonZero(adviceMap))
    /\ GitHubDone => githubResult.Status = Worst(adviceMap, NonZero(adviceMap))

C27_Witness ==
    /\ GitLabDone
    /\ GitHubDone
    /\ \E x \in AdvicesOf(adviceMap) :
          /\ adviceMap[x[1]][x[2]].Status = "ERROR"
          /\ adviceMap[x[1]][x[2]].Code = ZeroCode
    /\ \E x \in NonZero(adviceMap) : adviceMap[x[1]][x[2]].Status = "WARN"
    /\ gitlabResult.Status = "WARN"
    /\ githubResult.Status = "WARN"

\* C28: the report of each formatter is the same for every order in which
\* the map yields its keys, and lists the files in ascending order of their
\* path.
C28_ReportDeterministic ==
    /\ GitLabDone =>
          /\ \A o \in Orders(DOMAIN adviceMap) :
                gitlabResult = convertSQLAdviceToGitLabCIResult(adviceMap, o)
          /\ \A i, j \in 1..Len(gitlabResult.Content) :
                i < j => StrLess(gitlabResult.Content[i].name, gitlabResult.Content[j].name)
    /\ GitHubDone =>
          /\ \A o \in Orders(DOMAIN adviceMap) :
                githubResult = convertSQLAdiceToGitHubActionResult(adviceMap, o)
          /\ \A i, j \in 1..Len(githubResult.Content) :
                i < j => ~StrLess(githubResult.Content[j].file, githubResult.Content[i].file)

C28_Witness ==
    /\ GitLabDone
    /\ GitHubDone
    /\ Cardinality(DOMAIN adviceMap) = 2
    /\ Len(gitlabResult.Content) = 2
    /\ {githubResult.Content[i].file : i \in 1..Len(githubResult.Content)} = FormatFiles
    /\ gitlabResult.Content[1].name = fileF
    /\ githubResult.Content[1].file = fileF

\* The advices of a file that have a code other than zero, in their order.
NonZeroAdvices(f) == SelectSeq(adviceMap[f], LAMBDA advice : advice.Code # ZeroCode)

SuiteNames == [i \in 1..Len(gitlabResult.Content) |-> gitlabResult.Content[i].name]

\* The test cases of every suite are those of the advices of its file with a
\* code other than zero, one each and in their order, each with a failure
\* element and a line of at least 1.
TestcasesExact ==
    \A i \in 1..Len(gitlabResult.Content) :
        /\ SuiteNames[i] \in DOMAIN adviceMap
        /\ Len(gitlabResult.Content[i].testcaseList) = Len(NonZeroAdvices(SuiteNames[i]))
        /\ \A k \in 1..Len(gitlabResult.Content[i].testcaseList) :
              /\ gitlabResult.Content[i].testcaseList[k].code =
                     NonZeroAdvices(SuiteNames[i])[k].Code
              /\ gitlabResult.Content[i].testcaseList[k].file = SuiteNames[i]
              /\ gitlabResult.Content[i].testcaseList[k].failure
              /\ gitlabResult.Content[i].testcaseList[k].line >= 1
              /\ NonZeroAdvices(SuiteNames[i])[k].Line >= 1 =>
                     gitlabResult.Content[i].testcaseList[k].line =
                         NonZeroAdvices(SuiteNames[i])[k].Line

SuitesOnce == \A i, j \in 1..Len(SuiteNames) : SuiteNames[i] = SuiteNames[j] => i = j

\* C29 as stated: the GitLab report has exactly one test suite for each file
\* of the map.
C29_Original ==
    GitLabDone =>
        /\ SuitesOnce
        /\ {SuiteNames[i] : i \in 1..Len(SuiteNames)} = DOMAIN adviceMap
        /\ TestcasesExact

\* C29, amended: the GitLab report has exactly one test suite for each file
\* of the map that has an advice with a code other than zero and none for
\* the other files; a suite has exactly one test case for each such advice
\* of its file, every test case has a failure element, whatever the status
\* of its advice, and a line of at least 1.
C29_SuitesOfNonZero ==
    GitLabDone =>
        /\ SuitesOnce
        /\ {SuiteNames[i] : i \in 1..Len(SuiteNames)} =
               {f \in DOMAIN adviceMap : NonZeroAdvices(f) # <<>>}
        /\ TestcasesExact

C29_Witness ==
    /\ GitLabDone
    /\ DOMAIN adviceMap = FormatFiles
    /\ NonZeroAdvices(fileF) = <<>>
    /\ adviceMap[fileF] # <<>>
    /\ Len(NonZeroAdvices(fileH)) = 2
    /\ NonZeroAdvices(fileH)[1].Status = "SUCCESS"
    /\ NonZeroAdvices(fileH)[2].Line = 3
    /\ Len(gitlabResult.Content) = 1
    /\ Len(gitlabResult.Content[1].testcaseList) = 2
    /\ gitlabResult.Content[1].testcaseList[1].line = 1
    /\ gitlabResult.Content[1].testcaseList[2].line = 3

(***************************************************************************)
(* The SQL review handler of registerWebhookRoutes.  It runs in steps: the *)
(* handler up to the grouping of the files, the start of one goroutine per *)
(* file, the goroutines (the review of the file, then the write of the     *)
(* advice map, which takes time), and after wg.Wait the formatting and the *)
(* response.  pr is what ListPullRequestFile answers, [err, list], each    *)
(* file of the list with its item and IsDeleted.                           *)
(***************************************************************************)
successResult == [Status |-> "SUCCESS", Content |-> <<>>]

\* The zero value of api.VCSSQLReviewResult.
emptyResult == [Status |-> "", Content |-> <<>>]

reviewReturn(status, body, fr) ==
    [at |-> "returned", status |-> status, body |-> body, filterResult |-> fr,
     distinct |-> <<>>, grouped |-> EmptyMap]

\* The files of the pull request that are not deleted, from index k on.
RECURSIVE distinctOfPullRequest(_, _, _)
distinctOfPullRequest(list, k, distinct) ==
    IF k > Len(list) THEN distinct
    ELSE distinctOfPullRequest(list, k + 1,
             IF list[k].IsDeleted THEN distinct ELSE Append(distinct, list[k].item))

reviewGrouped(fr, distinct) ==
    [at |-> "launching", status |-> 0, body |-> NoReport, filterResult |-> fr,
     distinct |-> distinct, grouped |-> groupFileInfoByRepo(distinct, fr.list)]

\* The handler from the return of filterRepository (fr) on.
afterReviewFilter(fr, pr) ==
    IF fr.err = "404" THEN reviewReturn(404, NoReport, fr)
    ELSE IF fr.err # "" THEN reviewReturn(500, NoReport, fr)
    ELSE IF Len(fr.list) = 0 THEN reviewReturn(200, successResult, fr)
    ELSE IF pr.err THEN reviewReturn(500, NoReport, fr)
    ELSE reviewGrouped(fr, distinctOfPullRequest(pr.list, 1, <<>>))

\* The handler up to the loop that starts the goroutines.
reviewStart(req, rs, ferr, pr) ==
    IF ~req.bodyOK THEN reviewReturn(400, NoReport, NoFilterResult)
    ELSE IF ~req.convertOK THEN reviewReturn(400, NoReport, NoFilterResult)
    ELSE afterReviewFilter(filterRepository(rs, ferr, req), pr)

\* The files in the order in which the two loops reach them; order is the
\* order in which the range over the map yields the repository IDs.
RECURSIVE launchOrder(_, _, _, _)
launchOrder(grouped, order, k, files) ==
    IF k > Len(order) THEN files
    ELSE launchOrder(grouped, order, k + 1, files \o grouped[order[k]])

\* What a goroutine does with the return of sqlAdviceForFile: "done" when
\* it has nothing to write, "ready" when it goes on to write the map.
goroutineAfterAdvice(r) ==
    IF r.err # "" THEN "done"
    ELSE IF r.adviceList # <<>> THEN "ready"
    ELSE "done"

\* A map write that waits for the write of another goroutine to end.
mapWriteLocked(positions, f) ==
    \A g \in DOMAIN positions : g # f => positions[g] # "writing"

\* Whether a goroutine that is ready to write the map may start to: the
\* write is under no lock.
mapWriteFree(positions, f) == TRUE

\* What becomes of a map write: the entry is stored; when the write ran
\* while another one did, the entry may also be lost, or the runtime ends
\* the process with "concurrent map writes".
mapWriteOutcomes(raced, f) ==
    IF f \in raced THEN {"stored", "lost", "fatal"} ELSE {"stored"}

\* A handler that does not wait for the goroutines.
wgWaitSkipped(counter) == TRUE

\* wg.Wait returns when the counter is zero.
wgWait(counter) == counter = 0

\* The report for the VCS type of the first link.
formatReport(vcsType, m, order) ==
    IF vcsType = "GITHUB_COM" THEN convertSQLAdiceToGitHubActionResult(m, order)
    ELSE IF vcsType = "GITLAB_SELF_HOST" THEN convertSQLAdviceToGitLabCIResult(m, order)
    ELSE emptyResult

(***************************************************************************)
(* One SQL review request, the goroutines interleaved in every way.        *)
(***************************************************************************)
ReviewLink(base, enabled, mode, vcsType) ==
    [Archived |-> FALSE, HasVCS |-> TRUE, ExternalID |-> "r1",
     WebhookSecretToken |-> "s1", BranchFilter |-> <<"a", "*">>,
     EnableSQLReviewCI |-> enabled, WebURL |-> <<"h", "/", "r">>, VCSType |-> vcsType,
     BaseDirectory |-> base, TenantMode |-> mode, DBNameTemplate |-> "",
     SchemaChangeType |-> "DDL", Shape |-> ShapeAll("mig")]

ReviewLinks ==
    {ReviewLink(<<"a">>, TRUE, "DISABLED", "GITLAB_SELF_HOST"),
     ReviewLink(<<"b">>, TRUE, "TENANT", "GITLAB_SELF_HOST"),
     ReviewLink(<<>>, TRUE, "DISABLED", "GITHUB_COM"),
     ReviewLink(<<"a">>, FALSE, "DISABLED", "GITLAB_SELF_HOST")}

ReviewWithIDs(attrs) ==
    [i \in 1..Len(attrs) |->
        [Archived |-> attrs[i].Archived, HasVCS |-> attrs[i].HasVCS,
         ExternalID |-> attrs[i].ExternalID,
         WebhookSecretToken |-> attrs[i].WebhookSecretToken,
         BranchFilter |-> attrs[i].BranchFilter,
         EnableSQLReviewCI |-> attrs[i].EnableSQLReviewCI,
         WebURL |-> attrs[i].WebURL, VCSType |-> attrs[i].VCSType,
         ID |-> i, ProjectID |-> i, ProjectName |-> <<"project", i>>,
         BaseDirectory |-> attrs[i].BaseDirectory,
         TenantMode |-> attrs[i].TenantMode,
         DBNameTemplate |-> attrs[i].DBNameTemplate,
         SchemaChangeType |-> attrs[i].SchemaChangeType,
         Shape |-> attrs[i].Shape]]

ReviewRequest(bodyOK, jsonOK, token, mode, url) ==
    [provider |-> "sql-review", kind |-> "", bodyOK |-> bodyOK, convertOK |-> jsonOK,
     key |-> token, repositoryID |-> "r1", ref |-> <<>>,
     WebURL |-> url, releaseMode |-> mode]

ReviewRequests ==
    {ReviewRequest(TRUE, TRUE, "s1", "prod", <<"h">>),
     ReviewRequest(TRUE, TRUE, "s2", "prod", <<"h">>),
     ReviewRequest(TRUE, TRUE, "s1", "prod", <<"g">>),
     ReviewRequest(TRUE, TRUE, workspaceID, "dev", <<"h">>),
     ReviewRequest(TRUE, TRUE, workspaceID, "prod", <<"h">>),
     ReviewRequest(FALSE, TRUE, "s1", "prod", <<"h">>),
     ReviewRequest(TRUE, FALSE, "s1", "prod", <<"h">>)}

\* The request that a link with the SQL review CI enabled accepts.
GoodRequest == ReviewRequest(TRUE, TRUE, "s1", "prod", <<"h">>)

\* The pull request lists fileF, fileH or both, each deleted or not.
PullRequestFiles ==
    {l \in SeqsUpTo([item : PushFileItems, IsDeleted : BOOLEAN], Cardinality(PushFileItems)) :
        \A i, j \in 1..Len(l) : i < j => StrLess(l[i].item.FileName, l[j].item.FileName)}

\* The review of a file fails (the file cannot be read), finds no policy,
\* or returns the advice of SQLReviewCheck.
ReviewAnswerOf(read, outcome) ==
    [read |-> read, found |-> <<1>>, review |-> [d \in 1..MaxFound |-> outcome]]

ReviewAnswers ==
    {ReviewAnswerOf(FALSE, "ok"), ReviewAnswerOf(TRUE, "ok"), ReviewAnswerOf(TRUE, "noPolicy")}

InitReview ==
    /\ IdleMatch
    /\ IdleGroup
    /\ IdleAdvice
    /\ IdleFormat
    /\ IdleLink
    /\ IdleEvent
    /\ IdleJWT
    /\ fileItem = NoFileItem
    /\ repositoryList = <<>>
    /\ fileInfoResult = NoFileInfoResult
    /\ repoID2FileItemList = EmptyMap
    /\ diff = NoDiff
    /\ filteredDistinctFileList = <<>>
    /\ response = NoResponse
    /\ issues = <<>>
    /\ activities = <<>>
    /\ groupRepository = NoRepo
    /\ storeFailures = NoFailures
    /\ featureMultiTenancy = FALSE
    /\ projectResult = NoProjectResult
    /\ fileReads = <<>>
    /\ taskPatches = <<>>
    /\ distinctFileList = <<>>
    /\ request \in ReviewRequests
    /\ findErr \in BOOLEAN
    /\ repos \in {ReviewWithIDs(a) : a \in SeqsUpTo(ReviewLinks, MaxRepos)}
    /\ findErr => repos = <<>>
    /\ prFiles \in {[err |-> TRUE, list |-> <<>>]} \cup [err : {FALSE}, list : PullRequestFiles]
    /\ storeAnswers \in [{prFiles.list[k].item.FileName : k \in 1..Len(prFiles.list)}
                            -> ReviewAnswers]
    /\ request # GoodRequest =>
           /\ Len(repos) <= 1
           /\ prFiles.list = <<>>
    /\ \A k \in 1..Len(prFiles.list) :
           prFiles.list[k].IsDeleted =>
               storeAnswers[prFiles.list[k].item.FileName] = ReviewAnswerOf(TRUE, "ok")
    /\ filterResult = NoFilterResult
    /\ reviewPC = [at |-> "received", rest |-> <<>>]
    /\ taskPC = EmptyMap
    /\ wg = 0
    /\ sqlCheckAdvice = EmptyMap
    /\ overlapped = {}
    /\ reviewResponse = NoReviewResponse

\* What no step of the handler or of a goroutine changes.
reviewInputs ==
    <<varsMatch, varsGroup, varsAdvice, varsFormat, varsLink, varsEvent, varsJWT, fileItem, repositoryList,
      fileInfoResult, diff, filteredDistinctFileList, response, issues, activities,
      groupRepository, storeFailures, featureMultiTenancy, projectResult, fileReads,
      taskPatches, request, findErr, repos, prFiles, storeAnswers>>

\* The handler from its first line to the loop that starts the goroutines,
\* or to its return when it does not get that far.
ReviewStart ==
    /\ reviewPC.at = "received"
    /\ \E r \in {reviewStart(request, repos, findErr, prFiles)} :
          /\ filterResult' = r.filterResult
          /\ distinctFileList' = r.distinct
          /\ repoID2FileItemList' = r.grouped
          /\ reviewResponse' = [status |-> r.status, body |-> r.body]
          /\ \E order \in Orders(DOMAIN r.grouped) :
                reviewPC' = [at |-> r.at, rest |-> launchOrder(r.grouped, order, 1, <<>>)]
    /\ UNCHANGED <<reviewInputs, taskPC, wg, sqlCheckAdvice, overlapped>>

\* wg.Add(1) and the go statement for the next file.
Launch ==
    /\ reviewPC.at = "launching"
    /\ reviewPC.rest # <<>>
    /\ wg' = wg + 1
    /\ taskPC' = [f \in (DOMAIN taskPC) \cup {Head(reviewPC.rest).item.FileName} |->
                     IF f = Head(reviewPC.rest).item.FileName THEN "launched"
                     ELSE taskPC[f]]
    /\ reviewPC' = [reviewPC EXCEPT !.rest = Tail(reviewPC.rest)]
    /\ UNCHANGED <<reviewInputs, filterResult, distinctFileList, repoID2FileItemList,
                   sqlCheckAdvice, overlapped, reviewResponse>>

\* The two loops are over: the handler calls wg.Wait.
LaunchEnd ==
    /\ reviewPC.at = "launching"
    /\ reviewPC.rest = <<>>
    /\ reviewPC' = [reviewPC EXCEPT !.at = "waiting"]
    /\ UNCHANGED <<reviewInputs, filterResult, distinctFileList, repoID2FileItemList,
                   taskPC, wg, sqlCheckAdvice, overlapped, reviewResponse>>

\* The fileInfo of a file of the request.
FileInfoOf(f) ==
    CHOOSE file \in UNION {{repoID2FileItemList[id][k] : k \in 1..Len(repoID2FileItemList[id])} :
                              id \in DOMAIN repoID2FileItemList} :
        file.item.FileName = f

AdviceOfFile(f) == sqlAdviceForFile(FileInfoOf(f), storeAnswers[f])

Alive == reviewPC.at # "crashed"

\* The goroutine of file f calls sqlAdviceForFile; on an error it logs and
\* returns (wg.Done).
GoroutineReview(f) ==
    /\ Alive
    /\ taskPC[f] = "launched"
    /\ taskPC' = [taskPC EXCEPT ![f] = goroutineAfterAdvice(AdviceOfFile(f))]
    /\ wg' = IF goroutineAfterAdvice(AdviceOfFile(f)) = "done" THEN wg - 1 ELSE wg
    /\ UNCHANGED <<reviewInputs, filterResult, distinctFileList, repoID2FileItemList,
                   reviewPC, sqlCheckAdvice, overlapped, reviewResponse>>

\* The goroutine of file f starts to write the map.
GoroutineBeginWrite(f) ==
    /\ Alive
    /\ taskPC[f] = "ready"
    /\ mapWriteFree(taskPC, f)
    /\ taskPC' = [taskPC EXCEPT ![f] = "writing"]
    /\ overlapped' =
           IF \E g \in DOMAIN taskPC : taskPC[g] = "writing"
           THEN overlapped \cup {f} \cup {g \in DOMAIN taskPC : taskPC[g] = "writing"}
           ELSE overlapped
    /\ UNCHANGED <<reviewInputs, filterResult, distinctFileList, repoID2FileItemList,
                   reviewPC, wg, sqlCheckAdvice, reviewResponse>>

\* The write of the goroutine of file f ends and the goroutine returns
\* (wg.Done), unless the runtime ends the process.
GoroutineEndWrite(f) ==
    /\ Alive
    /\ taskPC[f] = "writing"
    /\ \E outcome \in mapWriteOutcomes(overlapped, f) :
          /\ sqlCheckAdvice' =
                 IF outcome = "stored"
                 THEN [x \in (DOMAIN sqlCheckAdvice) \cup {f} |->
                          IF x = f THEN AdviceOfFile(f).adviceList ELSE sqlCheckAdvice[x]]
                 ELSE sqlCheckAdvice
          /\ reviewPC' = IF outcome = "fatal" THEN [reviewPC EXCEPT !.at = "crashed"]
                         ELSE reviewPC
          /\ taskPC' = IF outcome = "fatal" THEN taskPC ELSE [taskPC EXCEPT ![f] = "done"]
          /\ wg' = IF outcome = "fatal" THEN wg ELSE wg - 1
    /\ UNCHANGED <<reviewInputs, filterResult, distinctFileList, repoID2FileItemList,
                   overlapped, reviewResponse>>

\* wg.Wait has returned: the handler formats the map and responds.
ReviewRespond ==
    /\ reviewPC.at = "waiting"
    /\ wgWait(wg)
    /\ \E order \in Orders(DOMAIN sqlCheckAdvice) :
          reviewResponse' =
              [status |-> 200,
               body |-> formatReport(filterResult.list[1].VCSType, sqlCheckAdvice, order)]
    /\ reviewPC' = [reviewPC EXCEPT !.at = "formatted"]
    /\ UNCHANGED <<reviewInputs, filterResult, distinctFileList, repoID2FileItemList,
                   taskPC, wg, sqlCheckAdvice, overlapped>>

NextReview ==
    \/ ReviewStart
    \/ Launch
    \/ LaunchEnd
    \/ \E f \in DOMAIN taskPC : GoroutineReview(f)
    \/ \E f \in DOMAIN taskPC : GoroutineBeginWrite(f)
    \/ \E f \in DOMAIN taskPC : GoroutineEndWrite(f)
    \/ ReviewRespond

SpecReview == InitReview /\ [][NextReview]_vars

Formatted == reviewPC.at = "formatted"

\* The classified files of the request, by name.
ClassifiedFiles ==
    UNION {{repoID2FileItemList[id][k].item.FileName : k \in 1..Len(repoID2FileItemList[id])} :
              id \in DOMAIN repoID2FileItemList}

\* When the handler waits or has formatted, one goroutine was started for
\* each classified file; when it has formatted, each of them has returned.
AllStartedAllDone ==
    /\ reviewPC.at \in {"waiting", "formatted"} => DOMAIN taskPC = ClassifiedFiles
    /\ wg = Cardinality({f \in DOMAIN taskPC : taskPC[f] # "done"})
    /\ Formatted =>
          /\ wg = 0
          /\ \A f \in ClassifiedFiles : taskPC[f] = "done"

\* C23: one goroutine is started for each classified file of the request,
\* and when the report is formatted and the response sent every one of them
\* has returned; from then on the advice map does not change.
C23_FormatAfterAllTasks ==
    /\ []AllStartedAllDone
    /\ [][Formatted => sqlCheckAdvice' = sqlCheckAdvice]_vars

C23_Witness ==
    /\ Formatted
    /\ Cardinality(ClassifiedFiles) = 2
    /\ DOMAIN sqlCheckAdvice = ClassifiedFiles
    /\ \A f \in ClassifiedFiles : taskPC[f] = "done"
    /\ reviewResponse.status = 200

Succeeded == {f \in ClassifiedFiles : AdviceOfFile(f).err = ""}

Severity(status) ==
    CASE status = "ERROR" -> 2
      [] status = "WARN" -> 1
      [] OTHER -> 0

WorstSucceeded ==
    IF \E f \in Succeeded : \E i \in 1..Len(AdviceOfFile(f).adviceList) :
           AdviceOfFile(f).adviceList[i].Status = "ERROR" THEN 2
    ELSE IF \E f \in Succeeded : \E i \in 1..Len(AdviceOfFile(f).adviceList) :
           AdviceOfFile(f).adviceList[i].Status = "WARN" THEN 1
    ELSE 0

\* C25: the advice map that is formatted has an entry for exactly the
\* classified files whose review succeeded, and the status of the report is
\* no more severe than the worst status among their advices.
C25_ExactlySucceeded ==
    Formatted =>
        /\ DOMAIN sqlCheckAdvice = Succeeded
        /\ Severity(reviewResponse.body.Status) <= WorstSucceeded

\* The same for the requests in which no two map writes ran at once.
C25_ExactWithoutOverlap ==
    (Formatted /\ overlapped = {}) =>
        /\ DOMAIN sqlCheckAdvice = Succeeded
        /\ Severity(reviewResponse.body.Status) <= WorstSucceeded

Responded == reviewPC.at \in {"returned", "formatted"}

\* C26: every response of the SQL review endpoint is a 200 with a report,
\* but for the 404 when the endpoint has no repository link.
C26_Always200 ==
    Responded =>
        \/ reviewResponse.status = 200 /\ reviewResponse.body # NoReport
        \/ reviewResponse.status = 404 /\ repos = <<>> /\ ~findErr

\* The responses there are, and the one of a request of which no file is
\* reviewed with success.
C26_ResponsesThereAre ==
    Responded =>
        /\ reviewResponse.status \in {200, 400, 404, 500}
        /\ reviewResponse.status = 400 <=> (~request.bodyOK \/ ~request.convertOK)
        /\ reviewResponse.status = 404 <=>
               (request.bodyOK /\ request.convertOK /\ ~findErr /\ repos = <<>>)
        /\ reviewResponse.status = 500 <=>
               /\ request.bodyOK /\ request.convertOK
               /\ findErr \/ (filterResult.err = "" /\ filterResult.list # <<>> /\ prFiles.err)
        /\ (Formatted /\ sqlCheckAdvice = EmptyMap) =>
               reviewResponse = [status |-> 200, body |-> successResult]

(***************************************************************************)
(* The handler that links a project to a repository (POST                  *)
(* /project/:projectID/repository).  ls are the links of the store, whs    *)
(* the webhooks of the provider, now is time.Now().Unix(), secretToken     *)
(* what common.RandomString returns, and answer says which call fails:     *)
(* "badRequest" (a check of the request), "findErr" (FindRepository),      *)
(* "webhookErr" (createVCSWebhook) or "ok" (none).                         *)
(***************************************************************************)
\* FindRepository by web URL: the links of that URL in the order of the store.
linksOfWebURL(ls, webURL) == SelectSeq(ls, LAMBDA l : l.WebURL = webURL)

\* A handler that creates a webhook for every link.
webhookAlwaysCreated(repositories, whs, now, secretToken, webURL, answer) ==
    IF answer = "webhookErr" THEN [err |-> TRUE, webhooks |-> whs]
    ELSE [err |-> FALSE,
          WebhookEndpointID |-> <<workspaceID, now>>,
          WebhookSecretToken |-> secretToken,
          ExternalWebhookID |-> Len(whs) + 1,
          webhooks |-> Append(whs, [ID |-> Len(whs) + 1, WebURL |-> webURL,
                                    WebhookEndpointID |-> <<workspaceID, now>>,
                                    SecretToken |-> secretToken])]

\* The webhook of the new link: the one of the first link of the same web
\* URL if there is one, else a new one, which createVCSWebhook creates at
\* the provider.
webhookOfLink(repositories, whs, now, secretToken, webURL, answer) ==
    IF Len(repositories) > 0
    THEN [err |-> FALSE,
          WebhookEndpointID |-> repositories[1].WebhookEndpointID,
          WebhookSecretToken |-> repositories[1].WebhookSecretToken,
          ExternalWebhookID |-> repositories[1].ExternalWebhookID,
          webhooks |-> whs]
    ELSE IF answer = "webhookErr" THEN [err |-> TRUE, webhooks |-> whs]
    ELSE [err |-> FALSE,
          WebhookEndpointID |-> <<workspaceID, now>>,
          WebhookSecretToken |-> secretToken,
          ExternalWebhookID |-> Len(whs) + 1,
          webhooks |-> Append(whs, [ID |-> Len(whs) + 1, WebURL |-> webURL,
                                    WebhookEndpointID |-> <<workspaceID, now>>,
                                    SecretToken |-> secretToken])]

\* CreateRepository: the store has at most one link for a project.
createRepository(ls, projectID, webURL, w) ==
    IF \E i \in 1..Len(ls) : ls[i].ProjectID = projectID
    THEN [status |-> 409, links |-> ls, webhooks |-> w.webhooks]
    ELSE [status |-> 200,
          links |-> Append(ls, [ProjectID |-> projectID, WebURL |-> webURL,
                                WebhookEndpointID |-> w.WebhookEndpointID,
                                WebhookSecretToken |-> w.WebhookSecretToken,
                                ExternalWebhookID |-> w.ExternalWebhookID]),
          webhooks |-> w.webhooks]

\* The handler from the webhook of the link (w) on.
afterWebhook(ls, projectID, webURL, w) ==
    IF w.err THEN [status |-> 500, links |-> ls, webhooks |-> w.webhooks]
    ELSE createRepository(ls, projectID, webURL, w)

\* Returns [status, links, webhooks].
linkRepository(ls, whs, now, projectID, webURL, secretToken, answer) ==
    IF answer = "badRequest" THEN [status |-> 400, links |-> ls, webhooks |-> whs]
    ELSE IF answer = "findErr" THEN [status |-> 500, links |-> ls, webhooks |-> whs]
    ELSE afterWebhook(ls, projectID, webURL,
             webhookOfLink(linksOfWebURL(ls, webURL), whs, now, secretToken, webURL, answer))

(***************************************************************************)
(* Link requests one after the other, the clock moving between them.       *)
(***************************************************************************)
LinkProjects == 1..MaxProjects
LinkWebURLs == {"u1", "u2"}
SecretTokens == {"s1", "s2"}
LinkAnswers == {"badRequest", "findErr", "webhookErr", "ok"}

InitLink ==
    /\ IdleMatch
    /\ IdleFilter
    /\ IdleFile
    /\ IdlePush
    /\ IdleGroup
    /\ IdleProject
    /\ IdleAdvice
    /\ IdleFormat
    /\ IdleReview
    /\ IdleLink
    /\ IdleEvent
    /\ IdleJWT

\* A request matters by its project and web URL unless a call before
\* FindRepository fails, by the answer of createVCSWebhook if no link has its
\* web URL, and by the random secret if a webhook is created.
LinkInputs ==
    {x \in [projectID : LinkProjects, webURL : LinkWebURLs, secretToken : SecretTokens,
            answer : LinkAnswers] :
        /\ x.answer \in {"badRequest", "findErr"} =>
               x.projectID = 1 /\ x.webURL = "u1" /\ x.secretToken = "s1"
        /\ linksOfWebURL(links, x.webURL) # <<>> =>
               x.answer # "webhookErr" /\ x.secretToken = "s1"
        /\ x.answer = "webhookErr" => x.secretToken = "s1"}

LinkCall ==
    \E x \in LinkInputs :
        \E r \in {linkRepository(links, webhooks, clock, x.projectID, x.webURL,
                                 x.secretToken, x.answer)} :
            /\ Len(r.webhooks) <= MaxWebhooks
            /\ links' = r.links
            /\ webhooks' = r.webhooks
            /\ linkResponse' = r.status
            /\ UNCHANGED <<varsMatch, varsFilter, varsFile, varsPush, varsGroup, varsProject,
                           varsAdvice, varsFormat, varsReview, varsEvent, varsJWT, clock>>

Tick ==
    /\ clock < MaxClock
    /\ clock' = clock + 1
    /\ UNCHANGED <<varsMatch, varsFilter, varsFile, varsPush, varsGroup, varsProject,
                   varsAdvice, varsFormat, varsReview, varsEvent, varsJWT, links, webhooks, linkResponse>>

NextLink == LinkCall \/ Tick

SpecLink == InitLink /\ [][NextLink]_vars

\* Any two links of one web URL have the same webhook endpoint ID, secret
\* and external webhook ID.
SameWebhook ==
    \A i, j \in 1..Len(links) :
        links[i].WebURL = links[j].WebURL =>
            /\ links[i].WebhookEndpointID = links[j].WebhookEndpointID
            /\ links[i].WebhookSecretToken = links[j].WebhookSecretToken
            /\ links[i].ExternalWebhookID = links[j].ExternalWebhookID

\* C30: after any sequence of link requests any two links of the same web
\* URL have the same webhook endpoint ID, secret and external webhook ID,
\* and a request to link a repository that already has a link creates no
\* webhook at the provider.
C30_LinksShareWebhook ==
    /\ []SameWebhook
    /\ [][webhooks' # webhooks =>
              \A i \in 1..Len(links) : links[i].WebURL # webhooks'[Len(webhooks')].WebURL]_vars

C30_Witness ==
    /\ Len(links) = 3
    /\ links[1].WebURL = "u1"
    /\ links[2].WebURL = "u2"
    /\ links[3].WebURL = "u1"
    /\ links[3].WebhookEndpointID = links[1].WebhookEndpointID
    /\ links[3].WebhookSecretToken = links[1].WebhookSecretToken
    /\ links[2].WebhookSecretToken # links[1].WebhookSecretToken
    /\ Len(webhooks) = 2
    /\ webhooks[1].WebURL = "u1"
    /\ webhooks[2].WebURL = "u2"
    /\ linkResponse = 200

(***************************************************************************)
(* The links the SQL review handler accepts.                               *)
(***************************************************************************)
\* filterRepository has returned its list to the handler.
ReviewFiltered == reviewPC.at # "received" /\ filterResult # NoFilterResult

\* The token of the request is accepted for link repo.
TokenAccepted(repo) ==
    \/ request.key = repo.WebhookSecretToken
    \/ request.key = workspaceID /\ request.releaseMode = "dev"

\* C31: every link the SQL review handler accepts for a request has the
\* SQL review CI enabled, a web URL that starts with the web URL of the
\* request, and as secret the token of the request; the workspace ID is
\* taken for the secret in development mode only.
C31_ReviewLinkAccepted ==
    ReviewFiltered =>
        \A i \in 1..Len(filterResult.list) :
            /\ filterResult.list[i].EnableSQLReviewCI
            /\ HasPrefix(filterResult.list[i].WebURL, request.WebURL)
            /\ TokenAccepted(filterResult.list[i])

\* A link is accepted on the workspace ID in development mode, and its
\* secret is another.
C31_Witness ==
    /\ ReviewFiltered
    /\ Len(filterResult.list) = 1
    /\ request.key = workspaceID
    /\ request.releaseMode = "dev"
    /\ filterResult.list[1].WebhookSecretToken # request.key
    /\ Len(request.WebURL) < Len(filterResult.list[1].WebURL)

(***************************************************************************)
(* The push event and the repository link as they travel through           *)
(* processPushEvent.  processFilesInProject and the functions it calls     *)
(* take pushEvent by value and assign to none of its fields: every issue   *)
(* context and activity payload built during the call for a group holds    *)
(* the pushEvent of that group, and every readFileContent of the call is   *)
(* made for the group's repository.                                        *)
(***************************************************************************)
\* pushEvent := baseVCSPushEvent made pushEvent another name of the base.
groupPushEventShared(base, repository) ==
    [base |-> [base EXCEPT !.VCSType = repository.VCSType,
                           !.BaseDirectory = repository.BaseDirectory],
     pushEvent |-> [base EXCEPT !.VCSType = repository.VCSType,
                                !.BaseDirectory = repository.BaseDirectory]]

\* pushEvent := baseVCSPushEvent copies the struct; the two assignments
\* change the copy.  Returns [base, pushEvent].
groupPushEvent(base, repository) ==
    [base |-> base,
     pushEvent |-> [base EXCEPT !.VCSType = repository.VCSType,
                                !.BaseDirectory = repository.BaseDirectory]]

\* The records built in a call, each with the push event it embeds.
withVCSPushEvent(list, pushEvent) ==
    [k \in 1..Len(list) |-> [VCSPushEvent |-> pushEvent, of |-> list[k]]]

\* The link whose external repository and OAuth context readFileContent
\* uses for a file of link repo: the first of the links FindRepository
\* returns for the webhook endpoint of repo, rs.
readFileContentLink(rs, repo) == rs[1]

\* The reads of a call for a group of link repo, each with the link it was
\* grouped under and the link it was read with.
withLink(reads, rs, repo) ==
    [k \in 1..Len(reads) |->
        [file |-> reads[k], grouped |-> repo.ID,
         link |-> readFileContentLink(rs, repo).ID]]

\* What processFilesInProject returned (r) with the push event and the link
\* of the call.
eventResult(r, rs, repo, pushEvent) ==
    [r EXCEPT !.issues = withVCSPushEvent(@, pushEvent),
              !.persisted = withVCSPushEvent(@, pushEvent),
              !.acts = withVCSPushEvent(@, pushEvent),
              !.reads = withLink(@, rs, repo)]

\* The loops of processPushEvent over the groups from index k on, base the
\* value of baseVCSPushEvent; a.bases lists the values the groups found.
RECURSIVE eventGroups(_, _, _, _, _, _, _, _)
eventGroupTurn(groups, k, prep, io, licensed, rs, e, a) ==
    eventGroups(groups, k + 1, prep, io, licensed, rs, e.base,
        afterGroup(io, a,
            eventResult(
                processFilesInProject(groups[k][1].repository, groups[k],
                    prep, io, licensed),
                rs, groups[k][1].repository, e.pushEvent)))

eventGroups(groups, k, prep, io, licensed, rs, base, a) ==
    IF k > Len(groups) \/ a.err # "" THEN a
    ELSE eventGroupTurn(groups, k, prep, io, licensed, rs,
             groupPushEvent(base, groups[k][1].repository),
             [a EXCEPT !.bases = Append(@, base)])

NoEvent ==
    [err |-> "", messages |-> <<>>, grouped |-> EmptyMap, issues |-> <<>>,
     activities |-> <<>>, reads |-> <<>>, patches |-> <<>>, bases |-> <<>>]

\* processPushEvent from the grouping on: rs are the links of the endpoint,
\* filtered those filterRepository let pass, fileList the files that are
\* left after the diff filter.
processEventGroups(rs, grouped, base, prep, io, licensed, order, dbOrder, tie) ==
    eventGroups(GroupsInOrder(grouped, order, dbOrder, tie), 1, prep, io, licensed,
        rs, base, [NoEvent EXCEPT !.grouped = grouped])

(***************************************************************************)
(* Specification SpecEvent: a GitLab push delivery for an endpoint with up *)
(* to MaxRepos links, handled from filterRepository to the end of          *)
(* processPushEvent.  The links have the base directories a and b and the  *)
(* secrets s1 and s2; the delivery carries s1.  ToVCS is not part of the   *)
(* sources: the VCS type and base directory of the event it returns are    *)
(* drawn from the values an event can hold.                                *)
(***************************************************************************)
EventLink(token, base) ==
    [ReviewLink(base, FALSE, "DISABLED", "GITLAB_SELF_HOST")
        EXCEPT !.WebhookSecretToken = token]

EventLinks == {EventLink("s1", <<"a">>), EventLink("s1", <<"b">>), EventLink("s2", <<"a">>)}

EventRequest ==
    [provider |-> "gitlab", kind |-> "push", bodyOK |-> TRUE, convertOK |-> TRUE,
     key |-> "s1", repositoryID |-> "r1", ref |-> expectedPrefix \o <<"a">>]

InboundEvents ==
    [Ref : {EventRequest.ref}, CommitList : {<<"c1">>},
     VCSType : {"", "GITLAB_SELF_HOST"}, BaseDirectory : {<<>>, <<"a">>}]

InitEvent ==
    /\ IdleMatch
    /\ IdleGroup
    /\ IdleAdvice
    /\ IdleFormat
    /\ IdleReview
    /\ IdleLink
    /\ IdleJWT
    /\ fileItem = NoFileItem
    /\ repositoryList = <<>>
    /\ fileInfoResult = NoFileInfoResult
    /\ repoID2FileItemList = EmptyMap
    /\ diff = NoDiff
    /\ filteredDistinctFileList = <<>>
    /\ groupRepository = NoRepo
    /\ projectResult = NoProjectResult
    /\ taskPatches = <<>>
    /\ request = EventRequest
    /\ findErr = FALSE
    /\ repos \in {ReviewWithIDs(a) : a \in SeqsUpTo(EventLinks, MaxRepos)}
    /\ vcsPushEvent \in InboundEvents
    /\ distinctFileList \in PushFileLists
    /\ storeAnswers \in [{distinctFileList[k].FileName : k \in 1..Len(distinctFileList)}
                            -> PrepareOutcomes]
    /\ storeFailures \in [createIssue : BOOLEAN, createActivity : BOOLEAN]
    /\ featureMultiTenancy = TRUE
    /\ filterResult = NoFilterResult
    /\ response = NoResponse
    /\ issues = <<>>
    /\ activities = <<>>
    /\ fileReads = <<>>
    /\ baseSeen = <<>>

\* The links filterRepository lets pass and the files grouped under them.
EventFiltered == filterRepository(repos, findErr, request)

EventGrouped == groupFileInfoByRepo(distinctFileList, EventFiltered.list)

\* The delivery handled from filterRepository to the return of
\* processPushEvent; the commit diff holds every file of the push.
EventCall ==
    /\ response = NoResponse
    /\ EventFiltered.err = ""
    /\ EventFiltered.list # <<>>
    /\ distinctFileList # <<>>
    /\ \E order \in Orders(DOMAIN EventGrouped) :
          \E r \in {processEventGroups(repos, EventGrouped, vcsPushEvent, storeAnswers,
                        storeFailures, featureMultiTenancy, order,
                        <<<<"d", "b">>>>, NamesOf(distinctFileList))} :
             /\ response' = [status |-> IF r.err = "" THEN 200 ELSE 500,
                              body |-> [kind |-> IF r.err = "" THEN "messages" ELSE "error",
                                        messages |-> r.messages]]
             /\ filterResult' = EventFiltered
             /\ repoID2FileItemList' = r.grouped
             /\ issues' = r.issues
             /\ activities' = r.activities
             /\ fileReads' = r.reads
             /\ baseSeen' = r.bases
    /\ UNCHANGED <<varsMatch, varsGroup, varsAdvice, varsFormat, varsReview, varsLink,
                   varsJWT, fileItem, repositoryList, fileInfoResult, diff,
                   filteredDistinctFileList, groupRepository, projectResult, taskPatches,
                   request, findErr, repos, vcsPushEvent, distinctFileList, storeAnswers,
                   storeFailures, featureMultiTenancy>>

NextEvent == EventCall

SpecEvent == InitEvent /\ [][NextEvent]_vars

EventDone == response # NoResponse

\* The push events embedded in the issues and activities of the delivery.
EmbeddedEvents ==
    {issues[k].VCSPushEvent : k \in 1..Len(issues)}
        \cup {activities[k].VCSPushEvent : k \in 1..Len(activities)}

\* The link of the endpoint with the given ID.
LinkByID(id) == repos[id]

\* Every embedded push event is the one the handler got from ToVCS.
C32_Original ==
    EventDone =>
        /\ \A e \in EmbeddedEvents : e = vcsPushEvent
        /\ \A k \in 1..Len(baseSeen) : baseSeen[k] = vcsPushEvent

\* C32: the push event embedded in an issue's creation context and in an
\* activity payload is the inbound push event with the VCS type and the
\* base directory of the repository link of its project, and equal to it in
\* every other field; every group finds the base push event as the handler
\* passed it.
C32_EventOfGroupLink ==
    EventDone =>
        /\ \A k \in 1..Len(issues) :
              issues[k].VCSPushEvent =
                  [vcsPushEvent EXCEPT
                      !.VCSType = LinkByID(issues[k].of.ProjectID).VCSType,
                      !.BaseDirectory = LinkByID(issues[k].of.ProjectID).BaseDirectory]
        /\ \A k \in 1..Len(activities) :
              activities[k].VCSPushEvent =
                  [vcsPushEvent EXCEPT
                      !.VCSType = LinkByID(activities[k].of.ContainerID).VCSType,
                      !.BaseDirectory = LinkByID(activities[k].of.ContainerID).BaseDirectory]
        /\ \A k \in 1..Len(baseSeen) : baseSeen[k] = vcsPushEvent

\* Two groups of two links were processed and each created its issue; the
\* two issues embed different push events.
C32_Witness ==
    /\ EventDone
    /\ Len(baseSeen) = 2
    /\ Len(issues) = 2
    /\ issues[1].VCSPushEvent # issues[2].VCSPushEvent
    /\ issues[1].VCSPushEvent.Ref = vcsPushEvent.Ref
    /\ \E k \in 1..Len(activities) : activities[k].of.Level = "INFO"

\* C35: every file content read during push processing is read with the
\* repository link under which the file was grouped.
C35_ReadWithGroupedLink ==
    EventDone =>
        \A k \in 1..Len(fileReads) : fileReads[k].link = fileReads[k].grouped

\* The link a file is read with is the first link of the endpoint, whether
\* or not it passed the checks of filterRepository; the link the file was
\* grouped under did pass them.
C35_ReadWithFirstLink ==
    EventDone =>
        \A k \in 1..Len(fileReads) :
            /\ fileReads[k].link = repos[1].ID
            /\ \E i \in 1..Len(filterResult.list) :
                  filterResult.list[i].ID = fileReads[k].grouped

(***************************************************************************)
(* What processFilesInProject returns and what it created (SpecProject).   *)
(***************************************************************************)
\* The names in the creation message the call returned.
MessageNames == {projectResult.msg[i] : i \in 1..Len(projectResult.msg)}

\* C33: processFilesInProject returns created exactly when the call created
\* an issue, and the creation message it returns with created names every
\* issue the call created.
C33_CreatedIffIssueCreated ==
    ProjectDone =>
        /\ projectResult.created <=> issues # <<>>
        /\ projectResult.created =>
              \A k \in 1..Len(issues) : issues[k].Name \in MessageNames

\* When the call returns created with a message, the message names every
\* issue created; when it returns no error and not created, it created none.
C33_MessageWhenThereIsOne ==
    ProjectDone =>
        /\ (projectResult.created /\ projectResult.msg # <<>>) =>
              \A k \in 1..Len(issues) : issues[k].Name \in MessageNames
        /\ (~projectResult.created /\ projectResult.err = "") => issues = <<>>

\* The name and the type of an issue agree.
NameAgreesWithType(issue) ==
    /\ issue.Name.what = "Alter schema" => issue.Type = "SCHEMA_UPDATE"
    /\ issue.Name.what = "Change data" => issue.Type = "DATA_UPDATE"

\* The migration kinds of the details of an issue.
KindsOf(issue) == {issue.DetailList[i].MigrationType : i \in 1..Len(issue.DetailList)}

\* C34: the name and the type of every issue the push pipeline creates
\* agree: Alter schema goes with schema update, Change data with data
\* update.
C34_NameAgreesWithType ==
    ProjectDone => \A k \in 1..Len(issues) : NameAgreesWithType(issues[k])

\* They agree for the issues whose details are of kind migrate or data
\* only, and every issue has one of the two names.
C34_AgreeForMigrateAndData ==
    ProjectDone =>
        \A k \in 1..Len(issues) :
            /\ issues[k].Name.what \in {"Alter schema", "Change data"}
            /\ KindsOf(issues[k]) \subseteq {"MIGRATE", "DATA"} =>
                   NameAgreesWithType(issues[k])

\* The modified file at index k reaches tryUpdateTasksFromModifiedFile, and
\* FindTask, the issue lookup and patchTask succeed whenever they are called
\* for it.
UpdateTried(k) ==
    /\ Modified(k)
    /\ \E n \in 1..Len(fileReads) : fileReads[n] = NameAt(k)
    /\ storeAnswers[NameAt(k)].read
    /\ storeAnswers[NameAt(k)].found # <<>>
    /\ storeAnswers[NameAt(k)].findTask
    /\ storeAnswers[NameAt(k)].patch = "ok"

\* C37: the databases of a modified file are treated one by one: each
\* database with exactly one matching task has that task patched, whatever
\* the number of matching tasks of the other databases of the file.
C37_DatabasesIndependent ==
    (ProjectDone /\ ~Tenant) =>
        \A k \in 1..Len(fileInfoListSorted) :
            UpdateTried(k) =>
                \A d \in 1..Len(storeAnswers[NameAt(k)].found) :
                    storeAnswers[NameAt(k)].tasks[d] = 1 =>
                        PatchesOf(NameAt(k), d) # {}

\* A database with exactly one matching task is patched when no database
\* before it has more than one.
C37_PatchedUpToFirstStop ==
    (ProjectDone /\ ~Tenant) =>
        \A k \in 1..Len(fileInfoListSorted) :
            UpdateTried(k) =>
                \A d \in 1..Len(storeAnswers[NameAt(k)].found) :
                    (/\ storeAnswers[NameAt(k)].tasks[d] = 1
                     /\ \A c \in 1..(d - 1) : storeAnswers[NameAt(k)].tasks[c] <= 1) =>
                        PatchesOf(NameAt(k), d) # {}

(***************************************************************************)
(* The outcome of a push and the order of the groups (SpecPush).           *)
(***************************************************************************)
\* What processPushEvent produces for the delivery of the state when the
\* range over the repository groups yields the keys in the given order.
PushOutcome(order) ==
    processPushEvent(filterResult.list, distinctFileList,
        [err |-> diff.err, list |-> diff.list], storeAnswers, storeFailures,
        featureMultiTenancy, order, <<<<"d", "b">>>>, NamesOf(distinctFileList))

SetOf(list) == {list[i] : i \in 1..Len(list)}

\* The delivery got as far as the loops over the groups.
GroupsRanged == PushDone /\ diff.called /\ ~diff.err

\* The outcome under the given order is the outcome of the state.
SameOutcome(order) ==
    /\ SetOf(PushOutcome(order).issues) = SetOf(issues)
    /\ SetOf(PushOutcome(order).activities) = SetOf(activities)
    /\ SetOf(PushOutcome(order).patches) = SetOf(taskPatches)

\* C36: the issues, task patches and activities of a push event are the
\* same for every order in which the groups are iterated, also when a group
\* fails.
C36_OrderIndependent ==
    GroupsRanged => \A order \in Orders(MapKeys) : SameOutcome(order)

\* They are the same for every order when no group fails.
C36_OrderIndependentWithoutError ==
    (GroupsRanged /\ response.status = 200) =>
        \A order \in Orders(MapKeys) : SameOutcome(order)

(***************************************************************************)
(* JWTMiddleware (activity.go).  A request is described by what the        *)
(* middleware finds in it:                                                 *)
(*   exempt      "auth" (the path starts with /auth or /actuator),         *)
(*               "subscription" (GET /subscription), "sql" (the OpenAPI    *)
(*               SQL endpoint) or "none"                                   *)
(*   tokenFound  findAccessToken returns no error                          *)
(*   access      what jwt.ParseWithClaims returns for the access token:    *)
(*               "valid" (no error), "expiredOnly" (a ValidationError      *)
(*               whose Errors is ValidationErrorExpired) or "otherError"   *)
(*   audienceOK  the claims hold the access audience of the mode           *)
(*   exp         claims.ExpiresAt: "none" (nil), "past", "soon" (within    *)
(*               refreshThresholdDuration) or "later"                      *)
(*   subject     claims.Subject                                            *)
(*   userErr     GetPrincipalByID fails                                    *)
(*   refresh     the refresh token cookie: "missing", or what              *)
(*               ParseWithClaims returns for it: "valid", "sigInvalid"     *)
(*               (jwt.ErrSignatureInvalid) or "otherError"                 *)
(*   refreshAudienceOK  its claims hold the refresh audience of the mode   *)
(*   generateOK  GenerateTokensAndSetCookies succeeds                      *)
(* The result is [status, next, principalID, generated]: status "next"     *)
(* (the next handler was invoked), "401", "500" or "panic"; principalID    *)
(* the ID stored in the context, 0 when none was.                          *)
(***************************************************************************)
\* The principals of the store.
Principals == {1}

\* strconv.Atoi on the subjects of the model: [n, err].
Atoi(str) ==
    CASE str = "1" -> [n |-> 1, err |-> FALSE]
      [] str = "2" -> [n |-> 2, err |-> FALSE]
      [] OTHER -> [n |-> 0, err |-> TRUE]

jwtReturn(status) ==
    [status |-> status, next |-> FALSE, principalID |-> 0, generated |-> FALSE]

jwtNext(principalID, generated) ==
    [status |-> "next", next |-> TRUE, principalID |-> principalID,
     generated |-> generated]

\* generateTokenFunc: [err, generated], err "" for nil.
generateTokenFunc(req) ==
    IF req.refresh = "missing" THEN [err |-> "401", generated |-> FALSE]
    ELSE IF req.refresh = "sigInvalid" THEN [err |-> "401", generated |-> FALSE]
    ELSE IF req.refresh # "valid" THEN [err |-> "500", generated |-> FALSE]
    ELSE IF ~req.refreshAudienceOK THEN [err |-> "401", generated |-> FALSE]
    ELSE IF ~req.generateOK THEN [err |-> "500", generated |-> FALSE]
    ELSE [err |-> "", generated |-> TRUE]

\* An error of generateTokenFunc is returned whatever the access token.
afterGenerateStrict(req, principalID, g) ==
    IF g.err # "" THEN jwtReturn(g.err)
    ELSE jwtNext(principalID, g.generated)

\* The middleware after generateTokenFunc returned g: its error is returned
\* only when the access token is not valid.
afterGenerate(req, principalID, g) ==
    IF g.err # "" /\ req.access # "valid" THEN jwtReturn(g.err)
    ELSE jwtNext(principalID, g.generated)

\* The middleware once the token error is nil; generateToken as computed.
withPrincipal(req, generateToken) ==
    IF Atoi(req.subject).err THEN jwtReturn("401")
    ELSE IF req.userErr THEN jwtReturn("500")
    ELSE IF Atoi(req.subject).n \notin Principals THEN jwtReturn("401")
    ELSE IF generateToken
    THEN afterGenerate(req, Atoi(req.subject).n, generateTokenFunc(req))
    ELSE jwtNext(Atoi(req.subject).n, FALSE)

\* The middleware from the audience check on.
afterAccessParse(req) ==
    IF ~req.audienceOK THEN jwtReturn("401")
    ELSE IF req.exp = "none" THEN jwtReturn("panic")
    ELSE IF req.access = "expiredOnly" THEN withPrincipal(req, TRUE)
    ELSE IF req.access = "valid" THEN withPrincipal(req, req.exp \in {"past", "soon"})
    ELSE jwtReturn("401")

JWTMiddleware(req) ==
    IF req.exempt # "none" THEN jwtNext(0, FALSE)
    ELSE IF ~req.tokenFound THEN jwtReturn("401")
    ELSE afterAccessParse(req)

(***************************************************************************)
(* Specification SpecJWT: one request through the middleware.  A valid     *)
(* token has no expiry in the past, a token that failed only on its expiry *)
(* has one; the claims of a token that failed otherwise (a forged one, for *)
(* instance) can be any.  What the middleware never reaches for a request  *)
(* stays at a default.                                                     *)
(***************************************************************************)
JWTRequests ==
    {r \in [exempt : {"auth", "subscription", "sql", "none"}, tokenFound : BOOLEAN,
            access : {"valid", "expiredOnly", "otherError"}, audienceOK : BOOLEAN,
            exp : {"none", "past", "soon", "later"}, subject : {"1", "2", "x"},
            userErr : BOOLEAN,
            refresh : {"missing", "valid", "sigInvalid", "otherError"},
            refreshAudienceOK : BOOLEAN, generateOK : BOOLEAN] :
        /\ r.access = "valid" => r.exp # "past"
        /\ r.access = "expiredOnly" => r.exp = "past"
        /\ (r.exempt # "none" \/ ~r.tokenFound) =>
               (r.access = "otherError" /\ ~r.audienceOK /\ r.exp = "none"
                   /\ r.subject = "x")
        /\ (~r.audienceOK \/ r.exp = "none" \/ r.access = "otherError") =>
               (~r.userErr /\ r.refresh = "missing")
        /\ r.subject # "1" => ~r.userErr
        /\ (r.subject # "1" \/ r.userErr \/ r.exp = "later") =>
               (r.refresh = "missing" /\ ~r.generateOK)
        /\ r.refresh # "valid" => (~r.refreshAudienceOK /\ ~r.generateOK)
        /\ ~r.refreshAudienceOK => ~r.generateOK}

InitJWT ==
    /\ IdleMatch
    /\ IdleFilter
    /\ IdleFile
    /\ IdlePush
    /\ IdleGroup
    /\ IdleProject
    /\ IdleAdvice
    /\ IdleFormat
    /\ IdleReview
    /\ IdleLink
    /\ IdleEvent
    /\ jwtRequest \in JWTRequests
    /\ jwtResult = NoJWTResult

JWTCall ==
    /\ jwtResult = NoJWTResult
    /\ jwtResult' = JWTMiddleware(jwtRequest)
    /\ UNCHANGED <<varsMatch, varsFilter, varsFile, varsPush, varsGroup, varsProject,
                   varsAdvice, varsFormat, varsReview, varsLink, varsEvent, jwtRequest>>

NextJWT == JWTCall

SpecJWT == InitJWT /\ [][NextJWT]_vars

JWTDone == jwtResult # NoJWTResult

\* The subject of the access token is a principal the store finds.
SubjectExists ==
    /\ ~Atoi(jwtRequest.subject).err
    /\ Atoi(jwtRequest.subject).n \in Principals
    /\ ~jwtRequest.userErr

\* The request carries a valid refresh token with the refresh audience.
RefreshValid == jwtRequest.refresh = "valid" /\ jwtRequest.refreshAudienceOK

\* C38: for a path that is not exempt the next handler is invoked, or a
\* principal ID stored, only when the access token holds the access
\* audience, its subject is an existing principal, and it is valid or
\* failed only on its expiry while the refresh token is valid and holds the
\* refresh audience; and a valid access token of an existing principal is
\* let through whatever becomes of the regeneration of the tokens.
C38_NextOnlyWhenAuthenticated ==
    (JWTDone /\ jwtRequest.exempt = "none") =>
        /\ (jwtResult.next \/ jwtResult.principalID # 0) =>
              /\ jwtRequest.tokenFound
              /\ jwtRequest.audienceOK
              /\ SubjectExists
              /\ jwtResult.principalID = Atoi(jwtRequest.subject).n
              /\ \/ jwtRequest.access = "valid"
                 \/ jwtRequest.access = "expiredOnly" /\ RefreshValid
        /\ (/\ jwtRequest.tokenFound
            /\ jwtRequest.audienceOK
            /\ jwtRequest.access = "valid"
            /\ jwtRequest.exp # "none"
            /\ SubjectExists) => jwtResult.next

\* A valid access token about to expire is let through although the
\* refresh token is missing.
C38_Witness ==
    /\ JWTDone
    /\ jwtRequest.exempt = "none"
    /\ jwtRequest.access = "valid"
    /\ jwtRequest.exp = "soon"
    /\ jwtRequest.refresh = "missing"
    /\ jwtResult.next
    /\ jwtResult.principalID = 1
    /\ ~jwtResult.generated

====
